---- MODULE Spec2Model ----
(***************************************************************************)
(* A model of the LectureNotesAI document pipeline:                        *)
(*   pipeline/processor.py   process_pdf and the two slide workers         *)
(*   backend/notion_client.py  upload, chunked append, AST -> blocks       *)
(*   backend/openai_client.py  the three retry-wrapped reasoning calls     *)
(*   main.py                 main_async, from the launcher to process_pdf  *)
(* asyncio is single threaded: one action is one run of a coroutine from   *)
(* the point it was resumed to its next suspension (a network call or a    *)
(* back-off sleep).                                                        *)
(***************************************************************************)
EXTENDS Integers, Sequences, FiniteSets, TLC

VARIABLES
    ctx,             \* PipelineContext (config.py): excluded_pages, conversation_id, ...
    main,            \* main_async (main.py): its position, locals, requests and log
    norm_call,       \* a direct call of normalize_inlines_spacing: argument, results
    compile_call,    \* a direct call of ast_to_notion_children: argument, results
    total_pages,     \* get_pdf_page_count(ctx.pdf_path)
    pc,              \* where process_pdf (or a direct caller of append) is suspended
    page_num,        \* loop variable of the slide loop (i + 1)
    upload_task,     \* page -> state of upload_image_to_notion_async for that slide
    analyze_task,    \* page -> state of analyze_image_structured_async for that slide
    summary_call,    \* state of generate_lecture_summary_async
    questions_call,  \* state of generate_exam_questions_async
    append_call,     \* state of append_children_to_notion_async
    results,         \* process_pdf's results: sequence of <<page_num, children>>
    all_children,    \* process_pdf's all_children
    notion_page,     \* the blocks the destination page holds, in order
    tmpdir,          \* TRUE while the TemporaryDirectory of process_pdf exists
    pbar,            \* the tqdm counter
    gather_exc,      \* the first exception of the awaited worker calls (asyncio.gather)
    raised           \* the exception that left process_pdf (or the direct call), if any

vars == <<ctx, main, norm_call, compile_call, total_pages, pc, page_num, upload_task,
          analyze_task, summary_call,
          questions_call, append_call, results, all_children, notion_page, tmpdir,
          pbar, gather_exc, raised>>

inputVars == <<ctx, main, norm_call, compile_call, total_pages>>
loopVars == <<page_num, results, all_children, tmpdir, pbar>>
serviceCalls == <<summary_call, questions_call, append_call, notion_page>>

(***************************************************************************)
(* Program constants and the bounds of the model.                          *)
(***************************************************************************)
_CHUNK_SIZE == 50
_RETRY_ATTEMPTS == 3
RETRY_ATTEMPTS == 3

MaxPages == 2
MainPages == 1
MaxText == 2
MaxInlines == 3
MaxPasses == 2
MaxLatex == 3
MaxItems == 2
MaxAstBlocks == 3
MaxBlocks == 5
MaxChunk == 3
ExampleBlocks == 120

Pages == 1..MaxPages

(***************************************************************************)
(* Text is a sequence of one-character strings.                            *)
(***************************************************************************)
\* A punctuation set that misses the closing brace.
punctuationWithoutBrace == {",", ".", ";", ":", "!", "?", ")", "]"}

punctuation == {",", ".", ";", ":", "!", "?", ")", "]", "}"}

\* An opener set that misses the opening brace.
openersWithoutBrace == {"(", "["}

openers == {"(", "[", "{"}
Whitespace == {" ", "\t", "\n", "\r"}

TextInline(t) == [kind |-> "text", text |-> t, latex |-> <<>>]
MathInline(l) == [kind |-> "math", text |-> <<>>, latex |-> l]

\* A pair rule that does not look for a space that is already there.
NormalizePairSpacingAgain(result, i) ==
    LET current == result[i]
        next_inline == result[i + 1]
        r1 == IF /\ current.kind = "text" /\ next_inline.kind = "math"
                 /\ current.text # <<>>
                 /\ current.text[Len(current.text)] \notin openers
              THEN [result EXCEPT ![i].text = Append(@, " ")]
              ELSE result
        r2 == IF /\ current.kind = "math" /\ next_inline.kind = "text"
                 /\ next_inline.text # <<>>
                 /\ next_inline.text[1] \notin punctuation
              THEN [r1 EXCEPT ![i + 1].text = <<" ">> \o @]
              ELSE r1
    IN r2

\* One pair of the loop of normalize_inlines_spacing: result[i], result[i + 1].
NormalizePair(result, i) ==
    LET current == result[i]
        next_inline == result[i + 1]
        r1 == IF /\ current.kind = "text" /\ next_inline.kind = "math"
                 /\ current.text # <<>>
                 /\ current.text[Len(current.text)] # " "
                 /\ current.text[Len(current.text)] \notin openers
              THEN [result EXCEPT ![i].text = Append(@, " ")]
              ELSE result
        r2 == IF /\ current.kind = "math" /\ next_inline.kind = "text"
                 /\ next_inline.text # <<>>
                 /\ next_inline.text[1] # " "
                 /\ next_inline.text[1] \notin punctuation
              THEN [r1 EXCEPT ![i + 1].text = <<" ">> \o @]
              ELSE r1
    IN r2

RECURSIVE NormalizeFrom(_, _)
NormalizeFrom(result, i) ==
    IF i >= Len(result) THEN result
    ELSE NormalizeFrom(NormalizePair(result, i), i + 1)

\* A normalizer that leaves out the text inlines that are empty.
NormalizeDroppingEmpty(inlines) ==
    LET kept == SelectSeq(inlines, LAMBDA x : ~(x.kind = "text" /\ x.text = <<>>))
    IN IF Len(kept) < 2 THEN kept ELSE NormalizeFrom(kept, 1)

normalize_inlines_spacing(inlines) ==
    IF Len(inlines) < 2 THEN inlines ELSE NormalizeFrom(inlines, 1)

(***************************************************************************)
(* The same function on the objects it is given.  The heap holds the dicts *)
(* (an address is an index of the heap), a list is a sequence of           *)
(* addresses.  The caller's list of n inlines is <<1, ..., n>>.            *)
(***************************************************************************)
HeapValues(heap, refs) == [k \in DOMAIN refs |-> heap[refs[k]]]

\* result = list(inlines): a new list of the same dicts.
AliasInlines(heap, refs) == [heap |-> heap, refs |-> refs]

\* result = [dict(i) for i in inlines]: a new list of new dicts.
CopyInlines(heap, refs) ==
    [heap |-> heap \o HeapValues(heap, refs),
     refs |-> [k \in DOMAIN refs |-> Len(heap) + k]]

\* The loop: what the pair rule assigns is assigned in the dicts of result.
RECURSIVE NormalizeHeapFrom(_, _, _)
NormalizeHeapFrom(heap, refs, i) ==
    IF i >= Len(refs) THEN heap
    ELSE LET pair == NormalizePair(HeapValues(heap, refs), i)
         IN NormalizeHeapFrom([heap EXCEPT ![refs[i]] = pair[i],
                                           ![refs[i + 1]] = pair[i + 1]],
                              refs, i + 1)

\* The call: the heap after it and the list it returns.
NormalizeCall(heap, refs) ==
    IF Len(refs) < 2 THEN [heap |-> heap, refs |-> refs]
    ELSE LET result == CopyInlines(heap, refs)
         IN [heap |-> NormalizeHeapFrom(result.heap, result.refs, 1),
             refs |-> result.refs]

NoNormalize ==
    [inlines |-> <<>>, results |-> <<>>, heap |-> <<>>, lists |-> <<>>, rich_text |-> <<>>]

\* The caller holds the inlines in a list of its own.
CallerOf(inlines) ==
    [inlines |-> inlines, results |-> <<>>, heap |-> inlines,
     lists |-> <<[k \in DOMAIN inlines |-> k]>>, rich_text |-> <<>>]

\* A segment for every inline, whatever its payload.
RichSegmentKeepingEmpty(inline) ==
    IF inline.kind = "text"
    THEN <<[type |-> "text", content |-> inline.text]>>
    ELSE IF inline.kind = "math"
    THEN <<[type |-> "equation", content |-> inline.latex]>>
    ELSE <<>>

\* A rich_text segment: a text segment or an equation segment.
RichSegment(inline) ==
    IF inline.kind = "text"
    THEN IF inline.text # <<>>
         THEN <<[type |-> "text", content |-> inline.text]>>
         ELSE <<>>
    ELSE IF inline.kind = "math"
    THEN IF inline.latex # <<>>
         THEN <<[type |-> "equation", content |-> inline.latex]>>
         ELSE <<>>
    ELSE <<>>

RECURSIVE inlines_to_rich_text(_)
inlines_to_rich_text(inlines) ==
    IF inlines = <<>> THEN <<>>
    ELSE RichSegment(Head(inlines)) \o inlines_to_rich_text(Tail(inlines))

\* str.strip()
RECURSIVE LStrip(_)
LStrip(s) == IF s # <<>> /\ Head(s) \in Whitespace THEN LStrip(Tail(s)) ELSE s
RECURSIVE RStrip(_)
RStrip(s) ==
    IF s # <<>> /\ s[Len(s)] \in Whitespace THEN RStrip(SubSeq(s, 1, Len(s) - 1)) ELSE s
\* str.lstrip() in the place of str.strip()
StripLeadingOnly(s) == LStrip(s)

Strip(s) == RStrip(LStrip(s))

(***************************************************************************)
(* Destination blocks, all of one shape: the type, the rich_text (heading, *)
(* paragraph, list items), the expression (equation) and the file_upload   *)
(* id (image).                                                             *)
(***************************************************************************)
NoId == <<>>
Block(type, rich_text, expression, id) ==
    [type |-> type, rich_text |-> rich_text, expression |-> expression,
     file_upload |-> id]

create_image_block(file_upload_id) == Block("image", <<>>, <<>>, file_upload_id)
Divider == Block("divider", <<>>, <<>>, NoId)
Spacer == Block("paragraph", <<>>, <<>>, NoId)
HeadingOne(title) ==
    Block("heading_1", <<[type |-> "text", content |-> title]>>, <<>>, NoId)
summary_title == HeadingOne(<<"Lecture Summary">>)
questions_title == HeadingOne(<<"Practice Questions">>)

\* A block also when the rich text is empty.
RichTextBlockKeepingEmpty(type, inlines) ==
    <<Block(type, inlines_to_rich_text(normalize_inlines_spacing(inlines)), <<>>, NoId)>>

RichTextBlock(type, inlines) ==
    LET rich_text == inlines_to_rich_text(normalize_inlines_spacing(inlines))
    IN IF rich_text # <<>> THEN <<Block(type, rich_text, <<>>, NoId)>> ELSE <<>>

\* The entries of a list joined into one item.
RECURSIVE Flatten(_)
Flatten(items) == IF items = <<>> THEN <<>> ELSE Head(items) \o Flatten(Tail(items))
ItemBlocksAsOneItem(type, items) == RichTextBlock(type, Flatten(items))

RECURSIVE ItemBlocks(_, _)
ItemBlocks(type, items) ==
    IF items = <<>> THEN <<>>
    ELSE RichTextBlock(type, Head(items)) \o ItemBlocks(type, Tail(items))

\* One case of the match of ast_to_notion_children.
BlockChildren(block) ==
    CASE block.kind = "heading" -> RichTextBlock("heading_3", block.inlines)
      [] block.kind = "paragraph" -> RichTextBlock("paragraph", block.inlines)
      [] block.kind = "math_block" ->
            IF Strip(block.latex) # <<>>
            THEN <<Block("equation", <<>>, Strip(block.latex), NoId)>>
            ELSE <<>>
      [] block.kind = "bullets" -> ItemBlocks("bulleted_list_item", block.items)
      [] block.kind = "numbered" -> ItemBlocks("numbered_list_item", block.items)
      [] OTHER -> <<>>

RECURSIVE CompileBlocks(_)
CompileBlocks(blocks) ==
    IF blocks = <<>> THEN <<>>
    ELSE BlockChildren(Head(blocks)) \o CompileBlocks(Tail(blocks))

\* A compiler that emits the title as a heading of its own.
CompileWithTitle(ast) ==
    <<Block("heading_1", <<[type |-> "text", content |-> ast.title]>>, <<>>, NoId)>>
        \o CompileBlocks(ast.blocks)

ast_to_notion_children(ast) == CompileBlocks(ast.blocks)

NoCompile == [ast |-> [title |-> <<>>, blocks |-> <<>>], called |-> FALSE,
              children |-> <<>>, retitled |-> <<>>, parts |-> <<>>]

\* range(0, len, n) and the slice xs[lo : hi]
RangeStarts(len, n) == {i \in 0..(len - 1) : i % n = 0}
Slice(xs, lo, hi) == SubSeq(xs, lo + 1, IF hi < Len(xs) THEN hi ELSE Len(xs))

\* A chunked that forgets the last, shorter chunk.
chunkedWithoutRemainder(xs, n) ==
    LET starts == {i \in RangeStarts(Len(xs), n) : i + n <= Len(xs)}
        start(k) == CHOOSE i \in starts : Cardinality({j \in starts : j < i}) = k - 1
    IN [k \in 1..Cardinality(starts) |-> Slice(xs, start(k), start(k) + n)]

\* chunked(xs, n): [xs[i : i + n] for i in range(0, len(xs), n)]
chunked(xs, n) ==
    LET starts == RangeStarts(Len(xs), n)
        start(k) == CHOOSE i \in starts : Cardinality({j \in starts : j < i}) = k - 1
    IN [k \in 1..Cardinality(starts) |-> Slice(xs, start(k), start(k) + n)]

(***************************************************************************)
(* What the reasoning service may answer: any AST of the schema.  The      *)
(* model draws two answers for each of the three call shapes.  SmallAST    *)
(* has a block the compiler drops, MathAST a math block and a heading,     *)
(* BigAST compiles to a full append chunk of its own, QuestionsAST is the  *)
(* numbered list of five question/answer pairs the prompt asks for.        *)
(***************************************************************************)
ASTBlock(kind, inlines, latex, items) ==
    [kind |-> kind, inlines |-> inlines, latex |-> latex, items |-> items]

SmallAST ==
    [title |-> <<"T">>,
     blocks |-> <<ASTBlock("paragraph", <<TextInline(<<"a">>), MathInline(<<"x">>)>>,
                           <<>>, <<>>),
                  ASTBlock("paragraph", <<TextInline(<<>>)>>, <<>>, <<>>)>>]

MathAST ==
    [title |-> <<"M">>,
     blocks |-> <<ASTBlock("heading", <<MathInline(<<"y">>), TextInline(<<"b">>)>>,
                           <<>>, <<>>),
                  ASTBlock("math_block", <<>>, <<" ", "z", "\n">>, <<>>)>>]

BigAST ==
    [title |-> <<"B">>,
     blocks |-> <<ASTBlock("bullets", <<>>, <<>>,
                           [k \in 1.._CHUNK_SIZE |-> <<TextInline(<<ToString(k)>>)>>])>>]

QuestionsAST ==
    [title |-> <<"Q">>,
     blocks |-> <<ASTBlock("numbered", <<>>, <<>>,
                           [k \in 1..5 |-> <<TextInline(<<"q", ToString(k)>>)>>])>>]

SlideASTs == {SmallAST, MathAST}
SummaryASTs == {SmallAST, BigAST}
QuestionASTs == {QuestionsAST, SmallAST}

(***************************************************************************)
(* Errors and the retry policy (_RETRY of both clients: tenacity with      *)
(* stop_after_attempt, retry_if_exception_type(Exception), reraise=True).  *)
(* An error carries its kind, the attempt that raised it and the network   *)
(* call that raised it.                                                    *)
(***************************************************************************)
ErrorKinds == {"transient", "permanent"}
NoError == [kind |-> "none", attempt |-> 0, op |-> "none"]
Error(kind, attempt, op) == [kind |-> kind, attempt |-> attempt, op |-> op]

InFlight == {"create", "send", "call"}
Live == InFlight \cup {"sleep"}

\* A policy that stops one attempt late.
AttemptFailedOnceMore(call, e, attempts) ==
    IF call.attempt > attempts
    THEN [call EXCEPT !.st = "raised", !.err = e]
    ELSE [call EXCEPT !.st = "sleep", !.err = e]

\* A policy that retries transient errors only.
AttemptFailedClassifying(call, e, attempts) ==
    IF call.attempt >= attempts \/ e.kind = "permanent"
    THEN [call EXCEPT !.st = "raised", !.err = e]
    ELSE [call EXCEPT !.st = "sleep", !.err = e]

\* The attempt of `call` raised e: sleep and retry, or give up and re-raise e.
\* The outcome of an attempt is dropped when the next attempt begins.
AttemptFailed(call, e, attempts) ==
    IF call.attempt >= attempts
    THEN [call EXCEPT !.st = "raised", !.err = e]
    ELSE [call EXCEPT !.st = "sleep", !.err = e]

\* A shutdown that leaves pending tasks alone.
CancelNothing(call) == call

\* Task.cancel() on whatever is still pending (asyncio.run, when main_async ends).
Cancel(call) == IF call.st \in Live THEN [call EXCEPT !.st = "cancelled"] ELSE call

\* asyncio.gather (and a plain await) hands its awaiter the first exception raised.
FirstException(exc, call) ==
    IF exc = NoError /\ call.st = "raised" THEN call.err ELSE exc

(***************************************************************************)
(* upload_image_to_notion_async: POST /file_uploads, then POST .../send.   *)
(***************************************************************************)
IdleUpload ==
    [st |-> "idle", attempt |-> 0, err |-> NoError, handle |-> NoId, target |-> NoId,
     value |-> NoId]

\* One attempt begins: the whole function body runs again, from step 1.
UploadAttempt(t) ==
    [t EXCEPT !.st = "create", !.attempt = @ + 1, !.handle = NoId, !.target = NoId,
              !.err = NoError]

\* data["id"] of the file upload object the service creates for this request.
FileUploadId(p, attempt) == <<p, attempt>>

UploadCreateOk(p) ==
    /\ upload_task[p].st = "create"
    /\ LET file_upload_id == FileUploadId(p, upload_task[p].attempt)
       IN upload_task' = [upload_task EXCEPT ![p].st = "send",
                              ![p].handle = file_upload_id,
                              ![p].target = file_upload_id]
    /\ UNCHANGED <<inputVars, loopVars, serviceCalls, pc, analyze_task, raised, gather_exc>>

\* An upload that returns the id of the first handle it ever created.
UploadSendOkFirstHandle(p) ==
    /\ upload_task[p].st = "send"
    /\ upload_task' = [upload_task EXCEPT ![p].st = "ok",
                           ![p].value = FileUploadId(p, 1)]
    /\ UNCHANGED <<inputVars, loopVars, serviceCalls, pc, analyze_task, raised, gather_exc>>

UploadSendOk(p) ==
    /\ upload_task[p].st = "send"
    /\ upload_task' = [upload_task EXCEPT ![p].st = "ok",
                           ![p].value = upload_task[p].handle]
    /\ UNCHANGED <<inputVars, loopVars, serviceCalls, pc, analyze_task, raised, gather_exc>>

\* resp.status != 200 (or the request raising) at either step.
UploadFail(p) ==
    /\ upload_task[p].st \in {"create", "send"}
    /\ \E kind \in ErrorKinds :
         upload_task' = [upload_task EXCEPT ![p] =
             AttemptFailed(@, Error(kind, @.attempt, @.st), _RETRY_ATTEMPTS)]
    /\ gather_exc' = FirstException(gather_exc, upload_task'[p])
    /\ UNCHANGED <<inputVars, loopVars, serviceCalls, pc, analyze_task, raised>>

UploadRetry(p) ==
    /\ upload_task[p].st = "sleep"
    /\ upload_task' = [upload_task EXCEPT ![p] = UploadAttempt(@)]
    /\ UNCHANGED <<inputVars, loopVars, serviceCalls, pc, analyze_task, raised, gather_exc>>

(***************************************************************************)
(* The three reasoning-service calls: one responses.create per attempt.    *)
(***************************************************************************)
OPENAI_MODEL == "gpt-5.2"

IdleCall ==
    [st |-> "idle", attempt |-> 0, err |-> NoError, value |-> <<>>, conversation |-> "",
     model |-> ""]

\* A retry that tenacity does not count.
CallAttemptUncounted(c) ==
    [c EXCEPT !.st = "call", !.attempt = IF @ = 0 THEN 1 ELSE @, !.err = NoError]

CallAttempt(c) == [c EXCEPT !.st = "call", !.attempt = @ + 1, !.err = NoError]

\* The three functions when first called: responses.create(model=model,
\* conversation=conversation_id) is in flight; the retries are made with the same
\* arguments.  No caller passes model, so it is the default of the parameter.
analyze_image_structured_async(conversation_id) ==
    [CallAttempt(IdleCall) EXCEPT !.conversation = conversation_id, !.model = OPENAI_MODEL]

\* A summary requested in a conversation of its own.
SummaryInNewConversation(conversation_id) ==
    [CallAttempt(IdleCall) EXCEPT !.conversation = "new", !.model = OPENAI_MODEL]

generate_lecture_summary_async(conversation_id) ==
    [CallAttempt(IdleCall) EXCEPT !.conversation = conversation_id, !.model = OPENAI_MODEL]
generate_exam_questions_async(conversation_id) ==
    [CallAttempt(IdleCall) EXCEPT !.conversation = conversation_id, !.model = OPENAI_MODEL]
CallOk(c, ast) == [c EXCEPT !.st = "ok", !.value = <<ast>>]
CallFailed(c, kind, op) == AttemptFailed(c, Error(kind, c.attempt, op), RETRY_ATTEMPTS)

AnalyzeOk(p) ==
    /\ analyze_task[p].st = "call"
    /\ \E ast \in SlideASTs :
         analyze_task' = [analyze_task EXCEPT ![p] = CallOk(@, ast)]
    /\ UNCHANGED <<inputVars, loopVars, serviceCalls, pc, upload_task, raised, gather_exc>>

AnalyzeFail(p) ==
    /\ analyze_task[p].st = "call"
    /\ \E kind \in ErrorKinds :
         analyze_task' = [analyze_task EXCEPT ![p] = CallFailed(@, kind, "analyze")]
    /\ gather_exc' = FirstException(gather_exc, analyze_task'[p])
    /\ UNCHANGED <<inputVars, loopVars, serviceCalls, pc, upload_task, raised>>

AnalyzeRetry(p) ==
    /\ analyze_task[p].st = "sleep"
    /\ analyze_task' = [analyze_task EXCEPT ![p] = CallAttempt(@)]
    /\ UNCHANGED <<inputVars, loopVars, serviceCalls, pc, upload_task, raised, gather_exc>>

SummaryOk ==
    /\ summary_call.st = "call"
    /\ \E ast \in SummaryASTs : summary_call' = CallOk(summary_call, ast)
    /\ UNCHANGED <<inputVars, loopVars, pc, upload_task, analyze_task, questions_call,
                   append_call, notion_page, raised, gather_exc>>

SummaryFail ==
    /\ summary_call.st = "call"
    /\ \E kind \in ErrorKinds : summary_call' = CallFailed(summary_call, kind, "summary")
    /\ UNCHANGED <<inputVars, loopVars, pc, upload_task, analyze_task, questions_call,
                   append_call, notion_page, raised, gather_exc>>

SummaryRetry ==
    /\ summary_call.st = "sleep"
    /\ summary_call' = CallAttempt(summary_call)
    /\ UNCHANGED <<inputVars, loopVars, pc, upload_task, analyze_task, questions_call,
                   append_call, notion_page, raised, gather_exc>>

QuestionsOk ==
    /\ questions_call.st = "call"
    /\ \E ast \in QuestionASTs : questions_call' = CallOk(questions_call, ast)
    /\ UNCHANGED <<inputVars, loopVars, pc, upload_task, analyze_task, summary_call,
                   append_call, notion_page, raised, gather_exc>>

QuestionsFail ==
    /\ questions_call.st = "call"
    /\ \E kind \in ErrorKinds :
         questions_call' = CallFailed(questions_call, kind, "questions")
    /\ UNCHANGED <<inputVars, loopVars, pc, upload_task, analyze_task, summary_call,
                   append_call, notion_page, raised, gather_exc>>

QuestionsRetry ==
    /\ questions_call.st = "sleep"
    /\ questions_call' = CallAttempt(questions_call)
    /\ UNCHANGED <<inputVars, loopVars, pc, upload_task, analyze_task, summary_call,
                   append_call, notion_page, raised, gather_exc>>

(***************************************************************************)
(* append_children_to_notion_async: one PATCH per chunk, in a loop, the    *)
(* whole function under @retry.  calls is the record of the PATCH requests *)
(* of the invocation, in issue order: the chunk's index, the attempt that  *)
(* issued it, its payload and how it ended.  A PATCH that does not answer  *)
(* 200 appends nothing to the page.                                        *)
(***************************************************************************)
IdleAppend ==
    [st |-> "idle", attempt |-> 0, err |-> NoError, idx |-> 0, children |-> <<>>,
     chunk_size |-> 0, calls |-> <<>>]

Patch(idx, attempt, batch) ==
    [chunk |-> idx, attempt |-> attempt, children |-> batch, result |-> "pending"]

Batches(a) == chunked(a.children, a.chunk_size)

\* One attempt begins: the loop over chunked(children, chunk_size) starts over.
AppendAttempt(a) ==
    IF Batches(a) = <<>>
    THEN [a EXCEPT !.st = "ok", !.attempt = @ + 1, !.idx = 0, !.err = NoError]
    ELSE [a EXCEPT !.st = "call", !.attempt = @ + 1, !.idx = 1, !.err = NoError,
                   !.calls = Append(@, Patch(1, a.attempt + 1, Batches(a)[1]))]

append_children_to_notion_async(children, chunk_size) ==
    AppendAttempt([IdleAppend EXCEPT !.children = children, !.chunk_size = chunk_size])

\* resp.status = 200: the loop goes on to the next batch, or the function returns.
AppendContinue(a) ==
    LET done == [a EXCEPT !.calls[Len(a.calls)].result = "ok"]
    IN IF a.idx < Len(Batches(a))
       THEN [done EXCEPT !.idx = @ + 1,
                         !.calls = Append(@, Patch(a.idx + 1, a.attempt,
                                                   Batches(a)[a.idx + 1]))]
       ELSE [done EXCEPT !.st = "ok"]

\* A loop that goes on to the next batch after a failed one.
AppendSkipAhead(a, kind) ==
    LET failed == [a EXCEPT !.calls[Len(a.calls)].result = "failed"]
    IN IF a.idx < Len(Batches(a))
       THEN [failed EXCEPT !.idx = @ + 1,
                           !.calls = Append(@, Patch(a.idx + 1, a.attempt,
                                                     Batches(a)[a.idx + 1]))]
       ELSE AttemptFailed(failed, Error(kind, a.attempt, "append"), _RETRY_ATTEMPTS)

\* resp.status != 200: raise Exception("Append failed"), caught by the retry policy.
AppendRaise(a, kind) ==
    AttemptFailed([a EXCEPT !.calls[Len(a.calls)].result = "failed"],
                  Error(kind, a.attempt, "append"), _RETRY_ATTEMPTS)

AppendChunkOk ==
    /\ append_call.st = "call"
    /\ notion_page' = notion_page \o Batches(append_call)[append_call.idx]
    /\ append_call' = AppendContinue(append_call)
    /\ UNCHANGED <<inputVars, loopVars, pc, upload_task, analyze_task, summary_call,
                   questions_call, raised, gather_exc>>

AppendChunkFail ==
    /\ append_call.st = "call"
    /\ \E kind \in ErrorKinds : append_call' = AppendRaise(append_call, kind)
    /\ UNCHANGED <<inputVars, loopVars, pc, upload_task, analyze_task, summary_call,
                   questions_call, notion_page, raised, gather_exc>>

AppendRetry ==
    /\ append_call.st = "sleep"
    /\ append_call' = AppendAttempt(append_call)
    /\ UNCHANGED <<inputVars, loopVars, pc, upload_task, analyze_task, summary_call,
                   questions_call, notion_page, raised, gather_exc>>

(***************************************************************************)
(* The slide workers and process_pdf.                                      *)
(***************************************************************************)
\* A loop that never looks at ctx.excluded_pages.
ExcludedIgnored(p) == FALSE

Excluded(p) == p \in ctx.excluded_pages

\* A coroutine that returned to process_pdf: only what it returned is left of it.
ReleasedUpload(t) == [IdleUpload EXCEPT !.st = "done", !.value = t.value]
ReleasedCall(c) ==
    [IdleCall EXCEPT !.st = "done", !.value = c.value, !.conversation = c.conversation,
                     !.model = c.model]

\* Both workers begin with the upload: its first POST is in flight at once.
UploadsAfterStart(tasks, p) == [tasks EXCEPT ![p] = UploadAttempt(IdleUpload)]

\* A loop that gathers the workers of all remaining slides at once.
AnalysesAllAtOnce(tasks, p) ==
    [q \in Pages |-> IF q >= p /\ q <= total_pages /\ ~Excluded(q)
                     THEN analyze_image_structured_async(ctx.conversation_id)
                     ELSE tasks[q]]

\* A worker that awaits the upload before it creates the analyze call.
AnalysesNotStarted(tasks, p) == tasks

\* _process_single_slide hands both coroutines to asyncio.gather, which starts
\* the two of them before either can finish; _upload_slide_only has no analyze.
AnalysesAfterStart(tasks, p) ==
    IF Excluded(p) THEN tasks
    ELSE [tasks EXCEPT ![p] = analyze_image_structured_async(ctx.conversation_id)]

\* What the worker of page p is suspended on has returned.
WorkerComplete(p) ==
    /\ upload_task[p].st = "ok"
    /\ Excluded(p) \/ analyze_task[p].st = "ok"

\* A worker that puts the image after the explanation.
ImageAfterExplanation(p) ==
    <<p, ast_to_notion_children(analyze_task[p].value[1])
         \o <<create_image_block(upload_task[p].value)>>
         \o <<Divider, Spacer>>>>

_process_single_slide(p) ==
    <<p, <<create_image_block(upload_task[p].value)>>
         \o ast_to_notion_children(analyze_task[p].value[1])
         \o <<Divider, Spacer>>>>

_upload_slide_only(p) ==
    <<p, <<create_image_block(upload_task[p].value), Divider, Spacer>>>>

\* A merge that puts each group in front of the ones before it.
RECURSIVE CombineReversed(_)
CombineReversed(rs) ==
    IF rs = <<>> THEN <<>> ELSE CombineReversed(Tail(rs)) \o Head(rs)[2]

\* for _, children in results: all_children.extend(children)
RECURSIVE Combine(_)
Combine(rs) == IF rs = <<>> THEN <<>> ELSE Head(rs)[2] \o Combine(Tail(rs))

\* Entry: the page count, the temporary directory, the page images, and the first
\* iteration of the loop up to its await.
Start ==
    /\ pc = "Start"
    /\ pc' = "SlideLoop"
    /\ tmpdir' = TRUE
    /\ page_num' = 1
    /\ results' = <<>>
    /\ pbar' = 0
    /\ upload_task' = UploadsAfterStart(upload_task, 1)
    /\ analyze_task' = AnalysesAfterStart(analyze_task, 1)
    /\ UNCHANGED <<inputVars, serviceCalls, all_children, raised, gather_exc>>

\* get_pdf_page_count or extract_pdf_pages_to_dir raised (the file cannot be
\* opened or a page cannot be rendered or saved): the exception leaves the with
\* block of the temporary directory, when it was entered, and process_pdf.
LocalSteps == {"page_count", "rasterize"}
StartFail ==
    /\ pc = "Start"
    /\ pc' = "Failed"
    /\ \E op \in LocalSteps : raised' = Error("permanent", 0, op)
    /\ tmpdir' = FALSE
    /\ UNCHANGED <<inputVars, serviceCalls, page_num, results, all_children, pbar,
                   upload_task, analyze_task, gather_exc>>

\* A loop that never updates the progress bar.
SlideDoneWithoutProgress ==
    /\ pc = "SlideLoop"
    /\ gather_exc = NoError
    /\ WorkerComplete(page_num)
    /\ LET result == IF Excluded(page_num) THEN _upload_slide_only(page_num)
                     ELSE _process_single_slide(page_num)
           uploads == [upload_task EXCEPT ![page_num] = ReleasedUpload(@)]
           analyses == [analyze_task EXCEPT ![page_num] =
                            IF @.st = "idle" THEN @ ELSE ReleasedCall(@)]
       IN /\ results' = Append(results, result)
          /\ pbar' = pbar
          /\ IF page_num < total_pages
             THEN /\ page_num' = page_num + 1
                  /\ upload_task' = UploadsAfterStart(uploads, page_num + 1)
                  /\ analyze_task' = AnalysesAfterStart(analyses, page_num + 1)
                  /\ UNCHANGED <<pc, tmpdir, all_children, summary_call>>
             ELSE /\ upload_task' = uploads
                  /\ analyze_task' = analyses
                  /\ tmpdir' = FALSE
                  /\ all_children' = Combine(results')
                  /\ summary_call' = generate_lecture_summary_async(ctx.conversation_id)
                  /\ pc' = "SummaryRequest"
                  /\ UNCHANGED page_num
    /\ UNCHANGED <<inputVars, questions_call, append_call, notion_page, raised,
                   gather_exc>>

\* The awaited worker returned: results.append, pbar.update, and either the next
\* iteration up to its await, or the end of the loop and of the two with blocks,
\* the combining of the children and the summary request.
SlideDone ==
    /\ pc = "SlideLoop"
    /\ gather_exc = NoError
    /\ WorkerComplete(page_num)
    /\ LET result == IF Excluded(page_num) THEN _upload_slide_only(page_num)
                     ELSE _process_single_slide(page_num)
           uploads == [upload_task EXCEPT ![page_num] = ReleasedUpload(@)]
           analyses == [analyze_task EXCEPT ![page_num] =
                            IF @.st = "idle" THEN @ ELSE ReleasedCall(@)]
       IN /\ results' = Append(results, result)
          /\ pbar' = pbar + 1
          /\ IF page_num < total_pages
             THEN /\ page_num' = page_num + 1
                  /\ upload_task' = UploadsAfterStart(uploads, page_num + 1)
                  /\ analyze_task' = AnalysesAfterStart(analyses, page_num + 1)
                  /\ UNCHANGED <<pc, tmpdir, all_children, summary_call>>
             ELSE /\ upload_task' = uploads
                  /\ analyze_task' = analyses
                  /\ tmpdir' = FALSE
                  /\ all_children' = Combine(results')
                  /\ summary_call' = generate_lecture_summary_async(ctx.conversation_id)
                  /\ pc' = "SummaryRequest"
                  /\ UNCHANGED page_num
    /\ UNCHANGED <<inputVars, questions_call, append_call, notion_page, raised,
                   gather_exc>>

\* A loop that logs the worker's exception and goes on without the slide.
SlideSkipped ==
    /\ pc = "SlideLoop"
    /\ gather_exc # NoError
    /\ gather_exc' = NoError
    /\ pbar' = pbar + 1
    /\ IF page_num < total_pages
       THEN /\ page_num' = page_num + 1
            /\ upload_task' = UploadsAfterStart(upload_task, page_num + 1)
            /\ analyze_task' = AnalysesAfterStart(analyze_task, page_num + 1)
            /\ UNCHANGED <<pc, tmpdir, all_children, summary_call>>
       ELSE /\ tmpdir' = FALSE
            /\ all_children' = Combine(results)
            /\ summary_call' = generate_lecture_summary_async(ctx.conversation_id)
            /\ pc' = "SummaryRequest"
            /\ UNCHANGED <<page_num, upload_task, analyze_task>>
    /\ UNCHANGED <<inputVars, results, questions_call, append_call, notion_page,
                   raised>>

\* An exit by exception that leaves the temporary directory behind.
SlideFailLeavingFiles ==
    /\ pc = "SlideLoop"
    /\ gather_exc # NoError
    /\ pc' = "Failed"
    /\ raised' = gather_exc
    /\ upload_task' = [p \in Pages |-> Cancel(upload_task[p])]
    /\ analyze_task' = [p \in Pages |-> Cancel(analyze_task[p])]
    /\ UNCHANGED <<inputVars, serviceCalls, page_num, results, all_children, pbar,
                   gather_exc, tmpdir>>

\* The awaited worker raised: the exception leaves both with blocks and
\* process_pdf, and asyncio.run cancels the task that is still pending.
SlideFail ==
    /\ pc = "SlideLoop"
    /\ gather_exc # NoError
    /\ pc' = "Failed"
    /\ raised' = gather_exc
    /\ tmpdir' = FALSE
    /\ upload_task' = [p \in Pages |-> Cancel(upload_task[p])]
    /\ analyze_task' = [p \in Pages |-> Cancel(analyze_task[p])]
    /\ UNCHANGED <<inputVars, serviceCalls, page_num, results, all_children, pbar,
                   gather_exc>>

\* A process_pdf that pushes to Notion right after the summary.
SummaryDoneThenDeliver ==
    /\ pc = "SummaryRequest"
    /\ summary_call.st = "ok"
    /\ all_children' = all_children \o <<summary_title>>
                           \o ast_to_notion_children(summary_call.value[1])
    /\ summary_call' = ReleasedCall(summary_call)
    /\ append_call' = append_children_to_notion_async(all_children', _CHUNK_SIZE)
    /\ pc' = "Delivering"
    /\ UNCHANGED <<inputVars, page_num, results, tmpdir, pbar, upload_task,
                   analyze_task, questions_call, notion_page, raised, gather_exc>>

SummaryDone ==
    /\ pc = "SummaryRequest"
    /\ summary_call.st = "ok"
    /\ all_children' = all_children \o <<summary_title>>
                           \o ast_to_notion_children(summary_call.value[1])
    /\ summary_call' = ReleasedCall(summary_call)
    /\ questions_call' = generate_exam_questions_async(ctx.conversation_id)
    /\ pc' = "QuestionsRequest"
    /\ UNCHANGED <<inputVars, page_num, results, tmpdir, pbar, upload_task,
                   analyze_task, append_call, notion_page, raised, gather_exc>>

SummaryRaise ==
    /\ pc = "SummaryRequest"
    /\ summary_call.st = "raised"
    /\ pc' = "Failed"
    /\ raised' = summary_call.err
    /\ UNCHANGED <<inputVars, loopVars, serviceCalls, upload_task, analyze_task,
                   gather_exc>>

QuestionsDone ==
    /\ pc = "QuestionsRequest"
    /\ questions_call.st = "ok"
    /\ all_children' = all_children \o <<questions_title>>
                           \o ast_to_notion_children(questions_call.value[1])
    /\ questions_call' = ReleasedCall(questions_call)
    /\ append_call' = append_children_to_notion_async(all_children', _CHUNK_SIZE)
    /\ pc' = "Delivering"
    /\ UNCHANGED <<inputVars, page_num, results, tmpdir, pbar, upload_task,
                   analyze_task, summary_call, notion_page, raised, gather_exc>>

\* A process_pdf that delivers the slides and the summary when the questions
\* request has given up.
QuestionsSkipped ==
    /\ pc = "QuestionsRequest"
    /\ questions_call.st = "raised"
    /\ append_call' = append_children_to_notion_async(all_children, _CHUNK_SIZE)
    /\ pc' = "Delivering"
    /\ UNCHANGED <<inputVars, loopVars, upload_task, analyze_task, summary_call,
                   questions_call, notion_page, raised, gather_exc>>

QuestionsRaise ==
    /\ pc = "QuestionsRequest"
    /\ questions_call.st = "raised"
    /\ pc' = "Failed"
    /\ raised' = questions_call.err
    /\ UNCHANGED <<inputVars, loopVars, serviceCalls, upload_task, analyze_task,
                   gather_exc>>

DeliverDone ==
    /\ pc = "Delivering"
    /\ append_call.st = "ok"
    /\ pc' = "Done"
    /\ UNCHANGED <<inputVars, loopVars, serviceCalls, upload_task, analyze_task,
                   raised, gather_exc>>

DeliverRaise ==
    /\ pc = "Delivering"
    /\ append_call.st = "raised"
    /\ pc' = "Failed"
    /\ raised' = append_call.err
    /\ UNCHANGED <<inputVars, loopVars, serviceCalls, upload_task, analyze_task,
                   gather_exc>>

(***************************************************************************)
(* main_async (main.py).  None is the empty option, a value v is <<v>>.    *)
(* The environment maps variable names to strings; a course name and a     *)
(* variable name are sequences of characters behind the fixed prefix.      *)
(***************************************************************************)
None == <<>>

AVAILABLE_MODELS == {"gpt-5.2", "gpt-5-mini"}

\* str.upper() and str.replace(" ", "_") on the characters course names use.
Upper(c) == CASE c = "a" -> "A" [] c = "i" -> "I" [] OTHER -> c
course_key(course_name) ==
    <<"NOTION_PAGE_">>
    \o [k \in 1..Len(course_name) |->
            IF Upper(course_name[k]) = " " THEN "_" ELSE Upper(course_name[k])]

\* os.environ.get(key)
EnvGet(env, key) == IF key \in DOMAIN env THEN <<env[key]>> ELSE None

\* Three environments: one that maps the course "A I" and leaves the page of
\* "Ai" empty, one without any course page, one without the API key.
Environments ==
    {(<<"NOTION_API_KEY">> :> "secret") @@ (<<"NOTION_PAGE_", "A", "_", "I">> :> "parent")
         @@ (<<"NOTION_PAGE_", "A", "I">> :> ""),
     (<<"NOTION_API_KEY">> :> "secret"),
     (<<"NOTION_PAGE_", "A", "_", "I">> :> "parent")}

\* What the launcher window can return when it is not closed.
LauncherResults ==
    [course_name : {<<"A", "i">>, <<"A", " ", "I">>},
     model : AVAILABLE_MODELS,
     select_slides : BOOLEAN]

NotRunning ==
    [pc |-> "none", env |-> <<>>, launcher_result |-> None, page_id |-> None,
     selection |-> "none", excluded_pages |-> {}, child_page_id |-> None,
     requests |-> <<>>, log |-> <<>>]

NoContext ==
    [excluded_pages |-> {}, conversation_id |-> "", notion_page_id |-> "",
     model |-> ""]

\* A branch that logs the abort and goes on to create the page.
AbortedThenContinue(m) ==
    [m EXCEPT !.pc = "create_page", !.log = Append(@, "Aborted by user."),
              !.requests = Append(@, "pages.create")]

\* logger.info("Aborted by user."); return
Aborted(m) == [m EXCEPT !.pc = "returned", !.log = Append(@, "Aborted by user.")]

\* A test that only looks for a variable that is not set.
PageIdIsNone(page_id) == page_id = None

\* not page_id
MissingPageId(page_id) == page_id = None \/ page_id = <<"">>

\* create_child_page: notion.pages.create is called, main_async blocks on it.
RequestChildPage(m) ==
    [m EXCEPT !.pc = "create_page", !.requests = Append(@, "pages.create")]

\* launch() returns; on a result, the environment is read and the page id of
\* the course looked up; without slide selection the page creation follows.
Launch ==
    /\ main.pc = "launch"
    /\ \E r \in {None} \cup {<<l>> : l \in LauncherResults} :
         LET m == [main EXCEPT !.launcher_result = r]
         IN IF r = None
            THEN main' = Aborted(m)
            ELSE IF <<"NOTION_API_KEY">> \notin DOMAIN main.env
            THEN main' = [m EXCEPT !.pc = "raised"]
            ELSE LET page_id == EnvGet(main.env, course_key(r[1].course_name))
                     looked == [m EXCEPT !.page_id = page_id]
                 IN IF MissingPageId(page_id)
                    THEN main' = [looked EXCEPT !.pc = "returned",
                                      !.log = Append(@, "No Notion page ID")]
                    ELSE IF r[1].select_slides
                    THEN main' = [looked EXCEPT !.pc = "selection"]
                    ELSE main' = RequestChildPage(looked)
    /\ UNCHANGED <<ctx, norm_call, compile_call, total_pages, loopVars, serviceCalls, pc,
                   upload_task, analyze_task, raised, gather_exc>>

\* select_slides_to_exclude returns (the pages were rasterized for it into a
\* temporary directory of its own): None on abort, else the set to exclude.
SelectSlides ==
    /\ main.pc = "selection"
    /\ \E result \in {None} \cup {<<e>> : e \in SUBSET (1..total_pages)} :
         IF result = None
         THEN main' = Aborted([main EXCEPT !.selection = "aborted"])
         ELSE main' = RequestChildPage([main EXCEPT !.selection = "chosen",
                                                    !.excluded_pages = result[1]])
    /\ UNCHANGED <<ctx, norm_call, compile_call, total_pages, loopVars, serviceCalls, pc,
                   upload_task, analyze_task, raised, gather_exc>>

\* The page is created: conversations.create is awaited.
CreatePageOk ==
    /\ main.pc = "create_page"
    /\ main' = [main EXCEPT !.pc = "conversation", !.child_page_id = <<"child">>,
                            !.requests = Append(@, "conversations.create")]
    /\ UNCHANGED <<ctx, norm_call, compile_call, total_pages, loopVars, serviceCalls, pc,
                   upload_task, analyze_task, raised, gather_exc>>

\* notion.pages.create raises: nothing catches it.
CreatePageFail ==
    /\ main.pc = "create_page"
    /\ main' = [main EXCEPT !.pc = "raised"]
    /\ UNCHANGED <<ctx, norm_call, compile_call, total_pages, loopVars, serviceCalls, pc,
                   upload_task, analyze_task, raised, gather_exc>>

\* The conversation exists: the context is built and process_pdf is called.
ConversationOk ==
    /\ main.pc = "conversation"
    /\ main' = [main EXCEPT !.pc = "pipeline"]
    /\ ctx' = [excluded_pages |-> main.excluded_pages,
               conversation_id |-> "conv",
               notion_page_id |-> main.child_page_id[1],
               model |-> main.launcher_result[1].model]
    /\ pc' = "Start"
    /\ UNCHANGED <<norm_call, compile_call, total_pages, loopVars, serviceCalls, upload_task,
                   analyze_task, raised, gather_exc>>

ConversationFail ==
    /\ main.pc = "conversation"
    /\ main' = [main EXCEPT !.pc = "raised"]
    /\ UNCHANGED <<ctx, norm_call, compile_call, total_pages, loopVars, serviceCalls, pc,
                   upload_task, analyze_task, raised, gather_exc>>

\* process_pdf returned: logger.info("Success!")
MainReturn ==
    /\ main.pc = "pipeline"
    /\ pc = "Done"
    /\ main' = [main EXCEPT !.pc = "returned", !.log = Append(@, "Success!")]
    /\ UNCHANGED <<ctx, norm_call, compile_call, total_pages, loopVars, serviceCalls, pc,
                   upload_task, analyze_task, raised, gather_exc>>

\* process_pdf raised: the exception leaves main_async as well.
MainRaise ==
    /\ main.pc = "pipeline"
    /\ pc = "Failed"
    /\ main' = [main EXCEPT !.pc = "raised"]
    /\ UNCHANGED <<ctx, norm_call, compile_call, total_pages, loopVars, serviceCalls, pc,
                   upload_task, analyze_task, raised, gather_exc>>

(***************************************************************************)
(* A run of process_pdf: a PDF of 1..MaxPages pages and any set of its     *)
(* pages excluded.                                                         *)
(***************************************************************************)
Init ==
    /\ total_pages \in 1..MaxPages
    /\ ctx \in [excluded_pages : SUBSET (1..total_pages), conversation_id : {"conv"},
                 notion_page_id : {"child"}, model : {"gpt-5.2"}]
    /\ main = NotRunning
    /\ norm_call = NoNormalize
    /\ compile_call = NoCompile
    /\ pc = "Start"
    /\ page_num = 0
    /\ upload_task = [p \in Pages |-> IdleUpload]
    /\ analyze_task = [p \in Pages |-> IdleCall]
    /\ summary_call = IdleCall
    /\ questions_call = IdleCall
    /\ append_call = IdleAppend
    /\ results = <<>>
    /\ all_children = <<>>
    /\ notion_page = <<>>
    /\ tmpdir = FALSE
    /\ pbar = 0
    /\ gather_exc = NoError
    /\ raised = NoError

Next ==
    \/ Start
    \/ StartFail
    \/ \E p \in Pages : UploadCreateOk(p)
    \/ \E p \in Pages : UploadSendOk(p)
    \/ \E p \in Pages : UploadFail(p)
    \/ \E p \in Pages : UploadRetry(p)
    \/ \E p \in Pages : AnalyzeOk(p)
    \/ \E p \in Pages : AnalyzeFail(p)
    \/ \E p \in Pages : AnalyzeRetry(p)
    \/ SlideDone
    \/ SlideFail
    \/ SummaryOk
    \/ SummaryFail
    \/ SummaryRetry
    \/ SummaryDone
    \/ SummaryRaise
    \/ QuestionsOk
    \/ QuestionsFail
    \/ QuestionsRetry
    \/ QuestionsDone
    \/ QuestionsRaise
    \/ AppendChunkOk
    \/ AppendChunkFail
    \/ AppendRetry
    \/ DeliverDone
    \/ DeliverRaise

Spec == Init /\ [][Next]_vars

\* The run under the scheduling the event loop gives: every network call in
\* flight is answered, every back-off sleep ends and a coroutine whose await
\* has completed is resumed, so a step is taken as long as one is possible.
\* The runs are those that exclude no page or the first page.
InitLive == Init /\ ctx.excluded_pages \subseteq {1}
SpecLive == InitLive /\ [][Next]_vars /\ WF_vars(Next)

(***************************************************************************)
(* append_children_to_notion_async called on its own: any list of up to    *)
(* MaxBlocks distinct blocks with any chunk size up to MaxChunk, and the   *)
(* ExampleBlocks blocks in chunks of _CHUNK_SIZE.                          *)
(***************************************************************************)
TestBlocks(n) == [k \in 1..n |-> create_image_block(<<0, k>>)]

AppendInputs ==
    ((0..MaxBlocks) \X (1..MaxChunk)) \cup {<<ExampleBlocks, _CHUNK_SIZE>>}

InitAppend ==
    /\ total_pages = 1
    /\ ctx = [NoContext EXCEPT !.notion_page_id = "child"]
    /\ main = NotRunning
    /\ norm_call = NoNormalize
    /\ compile_call = NoCompile
    /\ pc = "Direct"
    /\ page_num = 0
    /\ upload_task = [p \in Pages |-> IdleUpload]
    /\ analyze_task = [p \in Pages |-> IdleCall]
    /\ summary_call = IdleCall
    /\ questions_call = IdleCall
    /\ \E in \in AppendInputs :
         append_call = append_children_to_notion_async(TestBlocks(in[1]), in[2])
    /\ results = <<>>
    /\ all_children = <<>>
    /\ notion_page = <<>>
    /\ tmpdir = FALSE
    /\ pbar = 0
    /\ gather_exc = NoError
    /\ raised = NoError

DirectReturn ==
    /\ pc = "Direct"
    /\ append_call.st = "ok"
    /\ pc' = "Returned"
    /\ UNCHANGED <<inputVars, loopVars, serviceCalls, upload_task, analyze_task,
                   raised, gather_exc>>

DirectRaise ==
    /\ pc = "Direct"
    /\ append_call.st = "raised"
    /\ pc' = "Raised"
    /\ raised' = append_call.err
    /\ UNCHANGED <<inputVars, loopVars, serviceCalls, upload_task, analyze_task,
                   gather_exc>>

NextAppend ==
    \/ AppendChunkOk
    \/ AppendChunkFail
    \/ AppendRetry
    \/ DirectReturn
    \/ DirectRaise

SpecAppend == InitAppend /\ [][NextAppend]_vars

(***************************************************************************)
(* A run of main(): any of the environments, a PDF of 1..MainPages pages,  *)
(* any answer of the two windows, any outcome of every request.            *)
(***************************************************************************)
InitMain ==
    /\ total_pages \in 1..MainPages
    /\ ctx = NoContext
    /\ \E env \in Environments : main = [NotRunning EXCEPT !.pc = "launch", !.env = env]
    /\ norm_call = NoNormalize
    /\ compile_call = NoCompile
    /\ pc = "NotCalled"
    /\ page_num = 0
    /\ upload_task = [p \in Pages |-> IdleUpload]
    /\ analyze_task = [p \in Pages |-> IdleCall]
    /\ summary_call = IdleCall
    /\ questions_call = IdleCall
    /\ append_call = IdleAppend
    /\ results = <<>>
    /\ all_children = <<>>
    /\ notion_page = <<>>
    /\ tmpdir = FALSE
    /\ pbar = 0
    /\ gather_exc = NoError
    /\ raised = NoError

NextMain ==
    \/ Launch
    \/ SelectSlides
    \/ CreatePageOk
    \/ CreatePageFail
    \/ ConversationOk
    \/ ConversationFail
    \/ MainReturn
    \/ MainRaise
    \/ Next

SpecMain == InitMain /\ [][NextMain]_vars

(***************************************************************************)
(* normalize_inlines_spacing called on its own, and again on what it       *)
(* returned.  The arguments: every text of up to MaxText characters next   *)
(* to a math inline (before it, after it, between two), and every sequence *)
(* of up to MaxInlines inlines drawn from a few.                           *)
(***************************************************************************)
Chars == {"a", " ", "(", "[", "{", ",", ".", ";", ":", "!", "?", ")", "]", "}"}
Texts == UNION {[1..n -> Chars] : n \in 0..MaxText}
Maths == {MathInline(<<"x">>), MathInline(<<>>)}

RichInputs ==
    UNION {{<<TextInline(t), m>>, <<m, TextInline(t)>>} : t \in Texts, m \in Maths}
    \cup {<<m, TextInline(t), n>> : t \in Texts, m \in Maths, n \in Maths}

PlainInlines ==
    {TextInline(<<>>), TextInline(<<"a">>), TextInline(<<"(">>), TextInline(<<",">>),
     MathInline(<<"x">>)}
PlainInputs == UNION {[1..n -> PlainInlines] : n \in 0..MaxInlines}

InitNormalize ==
    /\ total_pages = 1
    /\ ctx = NoContext
    /\ main = NotRunning
    /\ \E inlines \in RichInputs \cup PlainInputs :
         norm_call = CallerOf(inlines)
    /\ compile_call = NoCompile
    /\ pc = "Direct"
    /\ page_num = 0
    /\ upload_task = [p \in Pages |-> IdleUpload]
    /\ analyze_task = [p \in Pages |-> IdleCall]
    /\ summary_call = IdleCall
    /\ questions_call = IdleCall
    /\ append_call = IdleAppend
    /\ results = <<>>
    /\ all_children = <<>>
    /\ notion_page = <<>>
    /\ tmpdir = FALSE
    /\ pbar = 0
    /\ gather_exc = NoError
    /\ raised = NoError

\* The function is applied to its argument, then to what it returned.
Normalize ==
    /\ pc = "Direct"
    /\ Len(norm_call.results) < MaxPasses
    /\ LET arg == IF norm_call.results = <<>> THEN norm_call.inlines
                  ELSE norm_call.results[Len(norm_call.results)]
           call == NormalizeCall(norm_call.heap, norm_call.lists[Len(norm_call.lists)])
       IN norm_call' = [norm_call EXCEPT
                           !.results = Append(@, normalize_inlines_spacing(arg)),
                           !.heap = call.heap,
                           !.lists = Append(@, call.refs)]
    /\ UNCHANGED <<ctx, main, compile_call, total_pages, loopVars, serviceCalls, pc, upload_task,
                   analyze_task, raised, gather_exc>>

\* inlines_to_rich_text(inlines), called directly on the caller's inlines.
ToRichText ==
    /\ pc = "Direct"
    /\ norm_call.rich_text = <<>>
    /\ norm_call' = [norm_call EXCEPT
                        !.rich_text = <<inlines_to_rich_text(norm_call.inlines)>>]
    /\ UNCHANGED <<ctx, main, compile_call, total_pages, loopVars, serviceCalls, pc, upload_task,
                   analyze_task, raised, gather_exc>>

NextNormalize == Normalize \/ ToRichText

SpecNormalize == InitNormalize /\ [][NextNormalize]_vars

(***************************************************************************)
(* ast_to_notion_children called directly.  The ASTs: one block of every   *)
(* kind over every payload up to the bounds (the inlines of a heading or   *)
(* paragraph, the latex of a math block, the items of a list), and every   *)
(* sequence of up to MaxAstBlocks blocks drawn from one block per kind.    *)
(* One call compiles the AST; the caller also compiles the AST under       *)
(* another title and each top-level block as an AST of its own.            *)
(***************************************************************************)
Latexes == UNION {[1..n -> {" ", "z", "\n"}] : n \in 0..MaxLatex}
ItemInlines ==
    {<<TextInline(<<"a">>)>>, <<MathInline(<<"x">>)>>, <<TextInline(<<>>)>>,
     <<TextInline(<<"a">>), MathInline(<<"x">>)>>}
ItemLists == UNION {[1..n -> ItemInlines] : n \in 0..MaxItems}

SingleBlocks ==
    {ASTBlock(kind, inlines, <<>>, <<>>) :
        kind \in {"heading", "paragraph"}, inlines \in PlainInputs}
    \cup {ASTBlock("math_block", <<>>, latex, <<>>) : latex \in Latexes}
    \cup {ASTBlock(kind, <<>>, <<>>, items) :
             kind \in {"bullets", "numbered"}, items \in ItemLists}

SampleBlocks ==
    {ASTBlock("heading", <<TextInline(<<"a">>)>>, <<>>, <<>>),
     ASTBlock("paragraph", <<TextInline(<<"a">>), MathInline(<<"x">>)>>, <<>>, <<>>),
     ASTBlock("paragraph", <<TextInline(<<>>)>>, <<>>, <<>>),
     ASTBlock("math_block", <<>>, <<"z">>, <<>>),
     ASTBlock("bullets", <<>>, <<>>, <<<<TextInline(<<"a">>)>>, <<MathInline(<<"x">>)>>>>),
     ASTBlock("numbered", <<>>, <<>>, <<<<TextInline(<<"a">>)>>>>)}

CompileInputs ==
    {[title |-> <<"T">>, blocks |-> <<block>>] : block \in SingleBlocks}
    \cup {[title |-> <<"T">>, blocks |-> blocks] :
             blocks \in UNION {[1..n -> SampleBlocks] : n \in 0..MaxAstBlocks}}

InitCompile ==
    /\ total_pages = 1
    /\ ctx = NoContext
    /\ main = NotRunning
    /\ norm_call = NoNormalize
    /\ \E ast \in CompileInputs : compile_call = [NoCompile EXCEPT !.ast = ast]
    /\ pc = "Direct"
    /\ page_num = 0
    /\ upload_task = [p \in Pages |-> IdleUpload]
    /\ analyze_task = [p \in Pages |-> IdleCall]
    /\ summary_call = IdleCall
    /\ questions_call = IdleCall
    /\ append_call = IdleAppend
    /\ results = <<>>
    /\ all_children = <<>>
    /\ notion_page = <<>>
    /\ tmpdir = FALSE
    /\ pbar = 0
    /\ gather_exc = NoError
    /\ raised = NoError

Compile ==
    /\ pc = "Direct"
    /\ ~compile_call.called
    /\ LET ast == compile_call.ast
       IN compile_call' =
            [compile_call EXCEPT
                !.called = TRUE,
                !.children = ast_to_notion_children(ast),
                !.retitled = ast_to_notion_children([ast EXCEPT !.title = <<"U">>]),
                !.parts = [k \in DOMAIN ast.blocks |->
                             ast_to_notion_children([ast EXCEPT !.blocks = <<ast.blocks[k]>>])]]
    /\ UNCHANGED <<ctx, main, norm_call, total_pages, loopVars, serviceCalls, pc, upload_task,
                   analyze_task, raised, gather_exc>>

NextCompile == Compile

SpecCompile == InitCompile /\ [][NextCompile]_vars

(***************************************************************************)
(* Properties.                                                             *)
(***************************************************************************)
Started(call) == call.st # "idle"

\* C1: at most one slide's analyze call is pending at any time, and the worker
\* of a slide (its upload, its analyze) starts only when the workers of all
\* earlier slides have fully completed and their results are in results, and
\* while no later slide's worker has started: analyze calls reach the
\* conversation in ascending page order.
C1_SlidesStrictlySequential ==
    \A p \in Pages :
        /\ analyze_task[p].st \in Live =>
              \A q \in Pages \ {p} : analyze_task[q].st \notin Live
        /\ Started(upload_task[p]) \/ Started(analyze_task[p]) =>
              /\ \A q \in 1..(p - 1) :
                    /\ upload_task[q].st = "done"
                    /\ analyze_task[q].st \in {"done", "idle"}
                    /\ Len(results) >= q
                    /\ results[q][1] = q
              /\ upload_task[p].st \in Live \/ analyze_task[p].st \in Live =>
                    \A q \in Pages : q > p =>
                        ~Started(upload_task[q]) /\ ~Started(analyze_task[q])

C1_Witness ==
    /\ total_pages >= 2
    /\ analyze_task[1].st = "done"
    /\ analyze_task[2].st = "call"
    /\ analyze_task[2].attempt = 2

Calls == append_call.calls
ChunkCount == Len(Batches(append_call))

\* The blocks of chunks 1..k of the call's children.
FirstChunks(k) ==
    SubSeq(append_call.children, 1,
           IF k * append_call.chunk_size < Len(append_call.children)
           THEN k * append_call.chunk_size ELSE Len(append_call.children))

\* Chunk k is the one that fails: every PATCH carrying it fails, no other does.
OnlyChunkFails(k) == \A i \in DOMAIN Calls : (Calls[i].result = "failed") <=> (Calls[i].chunk = k)

\* C2: when the append gives up because chunk k failed on every call carrying it,
\* the page holds exactly the blocks of chunks 1..k-1, each once, and no PATCH
\* carrying a later chunk was issued (120 blocks in chunks of 50 with the 2nd
\* chunk failing: exactly the first 50 blocks).
C2_FailedChunkLeavesEarlierChunksOnce ==
    append_call.st = "raised" =>
        \A k \in 1..ChunkCount :
            OnlyChunkFails(k) =>
                /\ notion_page = FirstChunks(k - 1)
                /\ \A i \in DOMAIN Calls : Calls[i].chunk <= k

\* A PATCH for a chunk is issued again only when the earlier PATCH for that
\* chunk failed.
C3_AppendRetriesOnlyFailedCall ==
    \A i, j \in DOMAIN Calls :
        i < j /\ Calls[i].chunk = Calls[j].chunk => Calls[i].result = "failed"

\* After a failed byte-send the next request of the upload is the byte-send
\* again, not another handle creation.
C3_UploadRetriesOnlyFailedCall ==
    \A p \in Pages :
        upload_task[p].st = "sleep" /\ upload_task[p].err.op = "send" =>
            upload_task'[p].st \in {"sleep", "send", "cancelled"}

\* C3: the retry is around each network call of the Delivery Layer: when one
\* HTTP call of an upload or of an append fails, only that call is issued
\* again, and the calls of the operation that succeeded are not.
C3_RetryWrapsEachNetworkCall ==
    [][C3_UploadRetriesOnlyFailedCall /\ C3_AppendRetriesOnlyFailedCall']_vars

RECURSIVE Payloads(_)
Payloads(calls) ==
    IF calls = <<>> THEN <<>> ELSE Head(calls).children \o Payloads(Tail(calls))

NoCallFailed == \A i \in DOMAIN Calls : Calls[i].result = "ok"

\* C4: when no call fails, appending N blocks with chunk size c issues exactly
\* ceil(N/c) PATCH calls, each of at most c blocks, all but the last of exactly
\* c, whose payloads in issue order concatenate to the block list.
C4_ChunkCallsCoverTheList ==
    append_call.st = "ok" /\ NoCallFailed =>
        LET N == Len(append_call.children)
            c == append_call.chunk_size
        IN /\ Len(Calls) = (N + c - 1) \div c
           /\ \A i \in DOMAIN Calls :
                 /\ Len(Calls[i].children) <= c
                 /\ Len(Calls[i].children) >= 1
                 /\ i < Len(Calls) => Len(Calls[i].children) = c
           /\ Payloads(Calls) = append_call.children

C4_Witness ==
    /\ append_call.st = "ok"
    /\ NoCallFailed
    /\ Len(append_call.children) = ExampleBlocks
    /\ append_call.chunk_size = _CHUNK_SIZE
    /\ Len(Calls) = 3
    /\ Len(Calls[1].children) = 50
    /\ Len(Calls[2].children) = 50
    /\ Len(Calls[3].children) = 20

\* C5: PATCH calls go out one at a time and in list order: only the last call of
\* the record can be pending, the call for chunk i+1 directly follows a call for
\* chunk i of the same attempt that returned success, a call for chunk 1 opens
\* the record or follows a failed call, and each carries its chunk of the list.
C5_ChunksInOrderOneAtATime ==
    \A j \in DOMAIN Calls :
        /\ Calls[j].result = "pending" => j = Len(Calls) /\ append_call.st = "call"
        /\ Calls[j].chunk \in 1..ChunkCount
        /\ Calls[j].children = Batches(append_call)[Calls[j].chunk]
        /\ Calls[j].chunk > 1 =>
              /\ j > 1
              /\ Calls[j - 1].chunk = Calls[j].chunk - 1
              /\ Calls[j - 1].attempt = Calls[j].attempt
              /\ Calls[j - 1].result = "ok"
        /\ Calls[j].chunk = 1 /\ j > 1 =>
              /\ Calls[j - 1].result = "failed"
              /\ Calls[j - 1].attempt + 1 = Calls[j].attempt

C5_Witness ==
    /\ Len(Calls) >= 4
    /\ \E j \in DOMAIN Calls : Calls[j].chunk = 3 /\ Calls[j].attempt = 2
    /\ \E j \in DOMAIN Calls : Calls[j].chunk = 2 /\ Calls[j].result = "failed"

\* The retry policy as one call shows it: never more attempts than the limit,
\* a sleep only when an attempt is left, and the error raised is the one of the
\* last attempt.
RetryBounded(call, attempts) ==
    /\ call.attempt <= attempts
    /\ call.st = "sleep" => call.attempt < attempts /\ call.err.attempt = call.attempt
    /\ call.st = "raised" =>
          /\ call.attempt = attempts
          /\ call.err.attempt = attempts
          /\ call.err.kind \in ErrorKinds

\* A call that returned is not attempted again, one that raised stays raised.
RetryStops(before, after) ==
    /\ before.st = "ok" =>
          \/ after.st = "ok" /\ after.attempt = before.attempt
          \/ after.st = "done"
    /\ before.st = "raised" => after = before

RaisedCalls ==
    {upload_task[p].err : p \in {q \in Pages : upload_task[q].st = "raised"}}
    \cup {analyze_task[p].err : p \in {q \in Pages : analyze_task[q].st = "raised"}}
    \cup (IF summary_call.st = "raised" THEN {summary_call.err} ELSE {})
    \cup (IF questions_call.st = "raised" THEN {questions_call.err} ELSE {})
    \cup (IF append_call.st = "raised" THEN {append_call.err} ELSE {})

C6_EveryCallBounded ==
    /\ \A p \in Pages : RetryBounded(upload_task[p], 3) /\ RetryBounded(analyze_task[p], 3)
    /\ RetryBounded(summary_call, 3)
    /\ RetryBounded(questions_call, 3)
    /\ RetryBounded(append_call, 3)
    /\ raised # NoError /\ raised.op \notin LocalSteps =>
          raised.attempt = 3 /\ raised \in RaisedCalls

C6_EveryCallStops ==
    /\ \A p \in Pages : /\ RetryStops(upload_task[p], upload_task'[p])
                        /\ RetryStops(analyze_task[p], analyze_task'[p])
    /\ RetryStops(summary_call, summary_call')
    /\ RetryStops(questions_call, questions_call')
    /\ RetryStops(append_call, append_call')

\* C6: each of upload, append, analyze, summary and questions is attempted at
\* most 3 times per invocation, is not attempted again once an attempt
\* succeeded, and when the 3rd attempt fails raises that attempt's error, which
\* is the error that leaves process_pdf.
C6_ThreeAttemptsThenLastError ==
    [][C6_EveryCallBounded /\ C6_EveryCallBounded' /\ C6_EveryCallStops]_vars

C6_Witness ==
    /\ pc = "Failed"
    /\ summary_call.st = "raised"
    /\ raised = summary_call.err
    /\ raised.attempt = 3

\* C7: an excluded page never has a reasoning-service call, and its block group
\* is an image block, a divider and an empty paragraph, nothing else.
C7_ExcludedPagesOnlyUploaded ==
    \A p \in ctx.excluded_pages :
        /\ ~Started(analyze_task[p])
        /\ Len(results) >= p =>
              LET group == results[p][2]
              IN /\ results[p][1] = p
                 /\ Len(group) = 3
                 /\ group[1].type = "image" /\ group[1].file_upload # NoId
                 /\ group[2].type = "divider"
                 /\ group[3].type = "paragraph" /\ group[3].rich_text = <<>>

C7_Witness ==
    \E p \in ctx.excluded_pages :
        /\ Len(results) >= p
        /\ upload_task[p].st = "done"
        /\ \E q \in Pages : Started(analyze_task[q])

\* The group of page k, looked up by its page number.
GroupOfPage(k) == results[CHOOSE i \in DOMAIN results : results[i][1] = k][2]

RECURSIVE GroupsUpTo(_)
GroupsUpTo(k) == IF k = 0 THEN <<>> ELSE GroupsUpTo(k - 1) \o GroupOfPage(k)

Occurrences(b, blocks) == Cardinality({i \in DOMAIN blocks : blocks[i] = b})

\* C8: the list handed to the append is the groups of pages 1..total_pages in
\* ascending page order, one per page, then the Lecture Summary heading and the
\* compiled summary, then the Practice Questions heading and the compiled
\* questions, each heading once.
C8_FinalListInDocumentOrder ==
    Started(append_call) =>
        /\ Len(results) = total_pages
        /\ \A k \in 1..total_pages :
              /\ \E i \in DOMAIN results : results[i][1] = k
              /\ GroupOfPage(k)[1] = create_image_block(upload_task[k].value)
              /\ upload_task[k].value[1] = k
        /\ append_call.children =
              GroupsUpTo(total_pages)
              \o <<HeadingOne(<<"Lecture Summary">>)>>
              \o ast_to_notion_children(summary_call.value[1])
              \o <<HeadingOne(<<"Practice Questions">>)>>
              \o ast_to_notion_children(questions_call.value[1])
        /\ Occurrences(HeadingOne(<<"Lecture Summary">>), append_call.children) = 1
        /\ Occurrences(HeadingOne(<<"Practice Questions">>), append_call.children) = 1

C8_Witness ==
    /\ pc = "Delivering"
    /\ total_pages >= 2
    /\ 1 \in ctx.excluded_pages
    /\ 2 \notin ctx.excluded_pages
    /\ Len(append_call.children) > _CHUNK_SIZE

PhaseSteps ==
    {<<"Start", "SlideLoop">>, <<"SlideLoop", "SummaryRequest">>,
     <<"SummaryRequest", "QuestionsRequest">>, <<"QuestionsRequest", "Delivering">>,
     <<"Delivering", "Done">>}
    \cup {<<ph, "Failed">> :
             ph \in {"Start", "SlideLoop", "SummaryRequest", "QuestionsRequest",
                     "Delivering"}}

BeforeDelivering == {"Start", "SlideLoop", "SummaryRequest", "QuestionsRequest"}

C9_RequestsInPhase ==
    /\ Started(summary_call) =>
          /\ pc \notin {"Start", "SlideLoop"}
          /\ Len(results) = total_pages
          /\ \A p \in 1..total_pages :
                upload_task[p].st = "done" /\ analyze_task[p].st \in {"done", "idle"}
    /\ Started(questions_call) => summary_call.st = "done" /\ pc # "SummaryRequest"
    /\ Started(append_call) => questions_call.st = "done" /\ pc \notin BeforeDelivering
    /\ pc \in BeforeDelivering => Calls = <<>> /\ notion_page = <<>>
    /\ pc = "Failed" /\ raised.op # "append" => Calls = <<>> /\ notion_page = <<>>

\* C9: pc only moves along Start, SlideLoop, SummaryRequest, QuestionsRequest,
\* Delivering, Done (or to Failed); the summary is requested only when every
\* slide worker has returned, the questions only when the summary has, the
\* first PATCH only when the questions have; a run that fails before Delivering
\* leaves the page empty.
C9_PhasesInOrder ==
    [][/\ pc' # pc => <<pc, pc'>> \in PhaseSteps
       /\ C9_RequestsInPhase
       /\ C9_RequestsInPhase']_vars

C9_Witness ==
    /\ pc = "Failed"
    /\ raised.op = "questions"
    /\ summary_call.st = "done"
    /\ Len(results) = total_pages
    /\ notion_page = <<>>

C10_BothStartedTogether ==
    \A p \in Pages :
        ~Excluded(p) =>
            /\ Started(upload_task[p]) <=> Started(analyze_task[p])
            /\ ~Started(upload_task[p]) /\ Started(upload_task'[p]) =>
                  upload_task'[p].st \in InFlight /\ analyze_task'[p].st \in InFlight

C10_AssembledAfterBoth ==
    Len(results') > Len(results) =>
        LET p == Len(results')
        IN /\ results'[p][1] = p
           /\ upload_task[p].st = "ok"
           /\ ~Excluded(p) => analyze_task[p].st = "ok"

\* C10: for a slide that is not excluded the upload and the analyze call start
\* in the same step, both pending before either has returned, and the slide's
\* group is added to results only in a step taken when both have returned
\* successfully.
C10_UploadAndAnalyzeOverlap ==
    [][C10_BothStartedTogether /\ C10_AssembledAfterBoth]_vars

C10_Witness ==
    /\ \E p \in Pages : ~Excluded(p) /\ Len(results) >= p /\ Len(results[p][2]) > 3
    /\ \E q \in Pages :
          /\ ~Excluded(q)
          /\ upload_task[q].st = "ok"
          /\ analyze_task[q].st = "call"
          /\ analyze_task[q].attempt = 2

\* The worker of page p has a call that gave up.
WorkerFailed(p) == upload_task[p].st = "raised" \/ analyze_task[p].st = "raised"

WorkerErrors(p) ==
    (IF upload_task[p].st = "raised" THEN {upload_task[p].err} ELSE {})
    \cup (IF analyze_task[p].st = "raised" THEN {analyze_task[p].err} ELSE {})

\* C11: when the upload or the analyze call of a slide has failed on its last
\* attempt, results never holds a group for that slide (no image-only, no
\* explanation-only group), the run goes nowhere but to Failed (no later slide
\* is started, nothing is combined, no summary is requested, it never ends
\* Done), and the error process_pdf raises is the error of that slide's call.
C11_FailedSlideAbortsTheRun ==
    \A p \in Pages :
        WorkerFailed(p) =>
            /\ p = page_num
            /\ Len(results) = p - 1
            /\ \A i \in DOMAIN results : results[i][1] # p
            /\ \A q \in Pages : q > p =>
                  ~Started(upload_task[q]) /\ ~Started(analyze_task[q])
            /\ all_children = <<>> /\ ~Started(summary_call)
            /\ pc \in {"SlideLoop", "Failed"}
            /\ pc = "Failed" => raised \in WorkerErrors(p)

C11_Witness ==
    /\ pc = "Failed"
    /\ page_num = 2
    /\ Len(results) = 1
    /\ upload_task[2].st = "ok"
    /\ analyze_task[2].st = "raised"
    /\ raised = analyze_task[2].err

\* Some operation has failed on its last attempt.
Exhausted == RaisedCalls # {}

\* The step issues a network request of the operation.
UploadIssued(p) ==
    upload_task'[p].st \in {"create", "send"} /\ upload_task'[p].st # upload_task[p].st
CallIssued(before, after) == after.st = "call" /\ before.st # "call"
AppendIssued == Len(append_call'.calls) > Len(append_call.calls)

LaterRequestIssued ==
    \/ \E q \in Pages : q # page_num /\ (UploadIssued(q) \/ CallIssued(analyze_task[q], analyze_task'[q]))
    \/ CallIssued(summary_call, summary_call')
    \/ CallIssued(questions_call, questions_call')
    \/ AppendIssued

SiblingRequestIssued ==
    UploadIssued(page_num) \/ CallIssued(analyze_task[page_num], analyze_task'[page_num])

NoCallLive ==
    /\ \A p \in Pages : upload_task[p].st \notin Live /\ analyze_task[p].st \notin Live
    /\ summary_call.st \notin Live
    /\ questions_call.st \notin Live
    /\ append_call.st \notin Live

\* C12 as stated: once an operation has exhausted its retries no network call
\* at all is issued any more, process_pdf does not return, and the error it
\* raises is the error of an exhausted operation.
C12_NoCallAfterExhaustion ==
    [][Exhausted =>
          /\ ~LaterRequestIssued
          /\ ~SiblingRequestIssued
          /\ pc' \in {pc, "Failed"}
          /\ pc' = "Failed" => raised' \in RaisedCalls]_vars

\* C12, amended: once an operation has exhausted its retries no later slide is
\* uploaded or analyzed, no summary or questions request and no PATCH is issued;
\* only the other call of the slide whose worker failed may still issue a
\* request, and only until process_pdf raises; process_pdf does not return but
\* raises the error of the first operation that gave up, and no call is
\* pending any more once it has.
C12_RunStopsAtFirstExhaustion ==
    [][Exhausted =>
          /\ ~LaterRequestIssued
          /\ SiblingRequestIssued =>
                pc = "SlideLoop" /\ pc' = "SlideLoop" /\ WorkerFailed(page_num)
          /\ pc' \in {pc, "Failed"}
          /\ pc' = "Failed" =>
                /\ raised' \in RaisedCalls
                /\ gather_exc # NoError => raised' = gather_exc
                /\ NoCallLive']_vars

C12_Witness ==
    /\ pc = "Failed"
    /\ page_num = 1
    /\ total_pages = 2
    /\ upload_task[1].st = "raised"
    /\ analyze_task[1].st = "cancelled"
    /\ analyze_task[1].attempt = 3
    /\ raised = upload_task[1].err
    /\ ~Started(upload_task[2])

Cancelled(before, after) == after.st = "cancelled" /\ before.st # "cancelled"

\* C13 as stated: a call whose request is in flight is never cancelled; when one
\* of a slide's two calls fails the other one runs to its own return or raise.
C13_NoCallCancelledMidFlight ==
    [][\A p \in Pages :
          /\ upload_task[p].st \in InFlight => ~Cancelled(upload_task[p], upload_task'[p])
          /\ analyze_task[p].st \in InFlight =>
                ~Cancelled(analyze_task[p], analyze_task'[p])]_vars

\* C13, amended: process_pdf and its workers cancel nothing.  When one of a
\* slide's two calls fails the other is left running for as long as process_pdf
\* has not raised; it is cancelled, in flight or not, in the step in which the
\* error leaves process_pdf and ends the run, after which no call is pending.
\* The calls process_pdf awaits directly are never cancelled.
C13_SiblingCancelledOnlyAtShutdown ==
    [][/\ \A p \in Pages :
             \/ Cancelled(upload_task[p], upload_task'[p])
             \/ Cancelled(analyze_task[p], analyze_task'[p])
             => /\ pc = "SlideLoop" /\ pc' = "Failed"
                /\ p = page_num
                /\ WorkerFailed(p)
       /\ pc' = "Failed" => NoCallLive'
       /\ summary_call'.st # "cancelled"
       /\ questions_call'.st # "cancelled"
       /\ append_call'.st # "cancelled"]_vars

\* The upload was cancelled while its byte-send was in flight.
C13_Witness ==
    /\ pc = "Failed"
    /\ analyze_task[1].st = "raised"
    /\ upload_task[1].st = "cancelled"
    /\ upload_task[1].handle # NoId
    /\ upload_task[1].err = NoError

RichText(type, content) == [type |-> type, content |-> content]

\* What the explanation of each answer drawn for a slide compiles to, written out.
ExpectedExplanation(ast) ==
    IF ast = SmallAST
    THEN <<[type |-> "paragraph",
            rich_text |-> <<RichText("text", <<"a", " ">>), RichText("equation", <<"x">>)>>,
            expression |-> <<>>, file_upload |-> <<>>]>>
    ELSE <<[type |-> "heading_3",
            rich_text |-> <<RichText("equation", <<"y">>), RichText("text", <<" ", "b">>)>>,
            expression |-> <<>>, file_upload |-> <<>>],
           [type |-> "equation", rich_text |-> <<>>, expression |-> <<"z">>,
            file_upload |-> <<>>]>>

\* C14: the group of a slide that is not excluded is one image block referencing
\* the asset id that slide's upload returned, then the compiled explanation
\* blocks in compiler order, then one divider, then one paragraph with empty
\* rich text: image first, divider and spacer last, nothing else.
C14_GroupOfProcessedSlide ==
    \A i \in DOMAIN results :
        LET p == results[i][1]
            group == results[i][2]
            n == Len(group)
        IN ~Excluded(p) =>
              /\ n >= 3
              /\ group[1].type = "image"
              /\ group[1].file_upload = upload_task[p].value
              /\ upload_task[p].value # NoId /\ upload_task[p].value[1] = p
              /\ analyze_task[p].value[1] \in SlideASTs
              /\ SubSeq(group, 2, n - 2) = ExpectedExplanation(analyze_task[p].value[1])
              /\ group[n - 1] = [type |-> "divider", rich_text |-> <<>>,
                                 expression |-> <<>>, file_upload |-> <<>>]
              /\ group[n] = [type |-> "paragraph", rich_text |-> <<>>,
                             expression |-> <<>>, file_upload |-> <<>>]
              /\ \A j \in 2..n : group[j].type # "image"
              /\ \A j \in 1..(n - 2) : group[j].type # "divider"

\* A two-page run whose second slide, uploaded at the second attempt, has the
\* heading and the equation of its explanation between image and divider.
C14_Witness ==
    /\ Len(results) = 2
    /\ ~Excluded(2)
    /\ Len(results[2][2]) = 5
    /\ results[2][2][1].file_upload = FileUploadId(2, 2)
    /\ results[2][2][3].type = "equation"

\* Nothing has gone out: no page and no conversation was asked for, process_pdf
\* was not called, and no upload, reasoning call or append was started.
NothingRequested ==
    /\ main.requests = <<>>
    /\ main.child_page_id = None
    /\ ctx = NoContext
    /\ pc = "NotCalled"
    /\ \A p \in Pages : ~Started(upload_task[p]) /\ ~Started(analyze_task[p])
    /\ ~Started(summary_call) /\ ~Started(questions_call) /\ ~Started(append_call)
    /\ notion_page = <<>>

\* C15: when the launcher window was closed, or the slide-selection window was
\* aborted, main_async has returned (it has not raised) and nothing was
\* requested: no page, no conversation, no upload, no reasoning call, no append.
C15_AbortReturnsBeforeAnyRequest ==
    \/ main.pc # "launch" /\ main.launcher_result = None
    \/ main.selection = "aborted"
    => /\ main.pc = "returned"
       /\ main.log = <<"Aborted by user.">>
       /\ NothingRequested

C15_Witness ==
    /\ main.pc = "returned"
    /\ main.selection = "aborted"
    /\ main.page_id = <<"parent">>
    /\ main.launcher_result # None

\* C16: when the environment has no page id for the chosen course (the variable
\* is not set, or set to the empty string), main_async ends without having
\* requested anything; with the API key present it logs the error and returns.
C16_NoPageIdEndsBeforeAnyRequest ==
    /\ main.pc \notin {"none", "launch"}
    /\ main.launcher_result # None
    /\ EnvGet(main.env, course_key(main.launcher_result[1].course_name))
           \in {None, <<"">>}
    => /\ main.pc \in {"returned", "raised"}
       /\ NothingRequested
       /\ <<"NOTION_API_KEY">> \in DOMAIN main.env =>
             main.pc = "returned" /\ main.log = <<"No Notion page ID">>

C16_Witness ==
    /\ main.pc = "returned"
    /\ main.launcher_result # None
    /\ main.page_id = <<"">>
    /\ main.log = <<"No Notion page ID">>

In == norm_call.inlines
Out == norm_call.results[1]
Normalized == Len(norm_call.results) >= 1

\* The text t of the argument is, in the result, found with `before` in front of
\* it and `after` behind it.
Framed(i, before, after) == Out[i].text \in {b \o In[i].text \o a : b \in before, a \in after}

Nothing == {<<>>}
OneSpace == {<<" ">>}
MaybeSpace == {<<>>, <<" ">>}

EndsWithSpaceOrOpener(t) == t # <<>> /\ t[Len(t)] \in {" ", "(", "[", "{"}
StartsWithSpaceOrPunctuation(t) ==
    t # <<>> /\ t[1] \in {" ", ",", ".", ";", ":", "!", "?", ")", "]", "}"}

TextThenMath(i) == In[i].kind = "text" /\ In[i + 1].kind = "math"
MathThenText(i) == In[i].kind = "math" /\ In[i + 1].kind = "text"

\* C17 as stated: for a text inline directly followed by a math inline, whatever
\* the text, the result's text ends with exactly one added space when the text
\* does not end with a space or one of ( [ {, and has its end unchanged otherwise.
C17_SpaceAppendedBeforeMath ==
    Normalized =>
        \A i \in 1..(Len(In) - 1) :
            TextThenMath(i) =>
                IF EndsWithSpaceOrOpener(In[i].text)
                THEN Framed(i, MaybeSpace, Nothing)
                ELSE Framed(i, MaybeSpace, OneSpace)

\* C17, amended: the same for every text that is not empty; an empty text
\* followed by a math inline stays empty.
C17_SpaceAppendedToNonEmptyText ==
    Normalized =>
        \A i \in 1..(Len(In) - 1) :
            TextThenMath(i) =>
                IF In[i].text = <<>> THEN Out[i].text = <<>>
                ELSE IF EndsWithSpaceOrOpener(In[i].text)
                THEN Framed(i, MaybeSpace, Nothing)
                ELSE Framed(i, MaybeSpace, OneSpace)

C17_Witness ==
    /\ Normalized
    /\ In = <<MathInline(<<"x">>), TextInline(<<"(", "a">>), MathInline(<<"x">>)>>
    /\ Out[2].text = <<" ", "(", "a", " ">>

\* C18 as stated: for a text inline directly after a math inline, whatever the
\* text, the result's text starts with exactly one added space when the text does
\* not start with a space or one of , . ; : ! ? ) ] }, and has its start
\* unchanged otherwise.
C18_SpacePrependedAfterMath ==
    Normalized =>
        \A i \in 1..(Len(In) - 1) :
            MathThenText(i) =>
                IF StartsWithSpaceOrPunctuation(In[i + 1].text)
                THEN Framed(i + 1, Nothing, MaybeSpace)
                ELSE Framed(i + 1, OneSpace, MaybeSpace)

\* C18, amended: the same for every text that is not empty; an empty text after
\* a math inline stays empty.
C18_SpacePrependedToNonEmptyText ==
    Normalized =>
        \A i \in 1..(Len(In) - 1) :
            MathThenText(i) =>
                IF In[i + 1].text = <<>> THEN Out[i + 1].text = <<>>
                ELSE IF StartsWithSpaceOrPunctuation(In[i + 1].text)
                THEN Framed(i + 1, Nothing, MaybeSpace)
                ELSE Framed(i + 1, OneSpace, MaybeSpace)

C18_Witness ==
    /\ Normalized
    /\ In = <<MathInline(<<"x">>), TextInline(<<"a", "}">>), MathInline(<<"x">>)>>
    /\ Out[2].text = <<" ", "a", "}", " ">>

\* C19: normalizing what the normalizer returned returns it unchanged.
C19_NormalizeIsIdempotent ==
    \A k \in 2..Len(norm_call.results) :
        norm_call.results[k] = norm_call.results[k - 1]

C19_Witness ==
    /\ Len(norm_call.results) = 2
    /\ In = <<MathInline(<<"x">>), TextInline(<<"a">>), MathInline(<<"x">>)>>
    /\ norm_call.results[2][2].text = <<" ", "a", " ">>

\* C20: the result has the length of the argument, the same kind at every
\* position, every math inline as it was, and every text equal to the
\* argument's text with at most one space in front and at most one behind; an
\* argument of length 0 or 1 is returned as it is.
C20_NormalizeKeepsTheInlines ==
    Normalized =>
        /\ Len(Out) = Len(In)
        /\ \A i \in DOMAIN In :
              /\ Out[i].kind = In[i].kind
              /\ Out[i].latex = In[i].latex
              /\ In[i].kind = "math" => Out[i] = In[i]
              /\ In[i].kind = "text" => Framed(i, MaybeSpace, MaybeSpace)
        /\ Len(In) < 2 => Out = In

C20_Witness ==
    /\ Normalized
    /\ In = <<TextInline(<<>>), TextInline(<<"a">>), MathInline(<<"x">>)>>
    /\ Out = <<TextInline(<<>>), TextInline(<<"a", " ">>), MathInline(<<"x">>)>>

\* The contents the list handed to call j had when the call was made.
ArgumentOf(j) == IF j = 1 THEN norm_call.inlines ELSE norm_call.results[j - 1]

\* C21: after a call the list it was given still holds the same dicts and every
\* one of them the contents it had before the call, also when the returned
\* sequence differs from it; what the returned list holds is the function's
\* result.
C21_NormalizeLeavesItsInput ==
    \A j \in DOMAIN norm_call.results :
        /\ Len(norm_call.lists[j]) = Len(ArgumentOf(j))
        /\ HeapValues(norm_call.heap, norm_call.lists[j]) = ArgumentOf(j)
        /\ HeapValues(norm_call.heap, norm_call.lists[j + 1]) = norm_call.results[j]

C21_Witness ==
    /\ Len(norm_call.results) = 1
    /\ norm_call.inlines = <<MathInline(<<"x">>), TextInline(<<"a">>), MathInline(<<"x">>)>>
    /\ norm_call.results[1] # norm_call.inlines
    /\ norm_call.heap[2] = TextInline(<<"a">>)
    /\ norm_call.heap[5] = TextInline(<<" ", "a", " ">>)

Payload(inline) == IF inline.kind = "text" THEN inline.text ELSE inline.latex
Kept == {k \in DOMAIN norm_call.inlines : Payload(norm_call.inlines[k]) # <<>>}
SegmentOf(inline) ==
    [type |-> IF inline.kind = "text" THEN "text" ELSE "equation",
     content |-> Payload(inline)]

\* C22: the rich text has exactly one segment per inline with a non-empty
\* payload, in input order: a text segment with the same content for a text
\* inline, an equation segment with the same expression for a math inline; an
\* inline with an empty payload contributes none.
C22_OneSegmentPerNonEmptyInline ==
    norm_call.rich_text # <<>> =>
        LET rich_text == norm_call.rich_text[1]
        IN /\ Len(rich_text) = Cardinality(Kept)
           /\ \A k \in Kept :
                 rich_text[Cardinality({j \in Kept : j <= k})]
                     = SegmentOf(norm_call.inlines[k])

C22_Witness ==
    /\ norm_call.inlines = <<MathInline(<<>>), TextInline(<<"a">>), MathInline(<<"x">>)>>
    /\ norm_call.rich_text = << <<[type |-> "text", content |-> <<"a">>],
                                  [type |-> "equation", content |-> <<"x">>]>> >>

\* The compiled AST, its top-level blocks and what each compiled to on its own.
Compiled == compile_call.called
AstBlocks == compile_call.ast.blocks
Part(k) == compile_call.parts[k]
NormalizedRichText(inlines) == inlines_to_rich_text(normalize_inlines_spacing(inlines))
RichTextKind(kind) ==
    CASE kind = "heading" -> "heading_3"
      [] kind = "paragraph" -> "paragraph"
      [] kind = "bullets" -> "bulleted_list_item"
      [] kind = "numbered" -> "numbered_list_item"

\* C23: a heading or paragraph block compiles to exactly one block of the
\* matching kind, carrying the rich text of its normalized inlines, when that
\* rich text is non-empty, and to no block when it is empty; so the AST whose
\* only block is a paragraph with the single inline text("") compiles to no
\* block.
C23_HeadingOrParagraphIsOneBlockOrNone ==
    Compiled =>
        /\ \A k \in DOMAIN AstBlocks :
              AstBlocks[k].kind \in {"heading", "paragraph"} =>
                LET rich_text == NormalizedRichText(AstBlocks[k].inlines)
                IN IF rich_text # <<>>
                   THEN Part(k) = <<[type |-> RichTextKind(AstBlocks[k].kind),
                                     rich_text |-> rich_text,
                                     expression |-> <<>>, file_upload |-> NoId]>>
                   ELSE Part(k) = <<>>
        /\ AstBlocks = <<ASTBlock("paragraph", <<TextInline(<<>>)>>, <<>>, <<>>)>>
              => compile_call.children = <<>>

C23_Witness ==
    /\ Compiled
    /\ AstBlocks = <<ASTBlock("paragraph", <<TextInline(<<>>)>>, <<>>, <<>>)>>
    /\ compile_call.children = <<>>

\* C24: a bullets block compiles to one bulleted-item block per entry of items
\* whose rich text is non-empty, in item order, a numbered block to
\* numbered-item blocks in the same way; each entry is normalized on its own,
\* so an entry of one inline is emitted as it is, whatever its neighbours.
C24_OneItemBlockPerNonEmptyEntry ==
    Compiled =>
        \A k \in DOMAIN AstBlocks :
            AstBlocks[k].kind \in {"bullets", "numbered"} =>
                LET items == AstBlocks[k].items
                    rich_text(i) == NormalizedRichText(items[i])
                    kept == {i \in DOMAIN items : rich_text(i) # <<>>}
                    item(i) == Part(k)[Cardinality({j \in kept : j <= i})]
                IN /\ Len(Part(k)) = Cardinality(kept)
                   /\ \A i \in kept :
                         /\ item(i) = [type |-> RichTextKind(AstBlocks[k].kind),
                                       rich_text |-> rich_text(i),
                                       expression |-> <<>>, file_upload |-> NoId]
                         /\ Len(items[i]) = 1 =>
                               item(i).rich_text = <<SegmentOf(items[i][1])>>

C24_Witness ==
    /\ Compiled
    /\ AstBlocks = <<ASTBlock("bullets", <<>>, <<>>,
                              <<<<TextInline(<<"a">>)>>, <<MathInline(<<"x">>)>>>>)>>
    /\ Len(compile_call.children) = 2
    /\ compile_call.children[1].type = "bulleted_list_item"
    /\ compile_call.children[1].rich_text = <<[type |-> "text", content |-> <<"a">>]>>
    /\ compile_call.children[2].rich_text = <<[type |-> "equation", content |-> <<"x">>]>>

\* C25: a math_block compiles to exactly one equation block whose expression
\* is the latex without its leading and trailing whitespace, and to no block
\* when the latex is empty or whitespace only.
C25_MathBlockIsTrimmedEquationOrNone ==
    Compiled =>
        \A k \in DOMAIN AstBlocks :
            AstBlocks[k].kind = "math_block" =>
                LET latex == AstBlocks[k].latex
                    inner == {i \in DOMAIN latex : latex[i] \notin Whitespace}
                IN IF inner = {}
                   THEN Part(k) = <<>>
                   ELSE LET first == CHOOSE i \in inner : \A j \in inner : i <= j
                            last == CHOOSE i \in inner : \A j \in inner : j <= i
                        IN Part(k) = <<[type |-> "equation", rich_text |-> <<>>,
                                        expression |-> SubSeq(latex, first, last),
                                        file_upload |-> NoId]>>

C25_Witness ==
    /\ Compiled
    /\ AstBlocks = <<ASTBlock("math_block", <<>>, <<" ", "z", "\n">>, <<>>)>>
    /\ Len(compile_call.children) = 1
    /\ compile_call.children[1].expression = <<"z">>

RECURSIVE Concatenation(_)
Concatenation(parts) ==
    IF parts = <<>> THEN <<>> ELSE Head(parts) \o Concatenation(Tail(parts))

\* C26: the output is the concatenation, in AST order, of what the top-level
\* blocks compile to, and the title contributes no block: the same blocks
\* under another title compile to the same sequence.
C26_ConcatenationWithoutTitle ==
    Compiled =>
        /\ compile_call.children = Concatenation(compile_call.parts)
        /\ compile_call.children = compile_call.retitled
        /\ \A k \in DOMAIN compile_call.children :
              compile_call.children[k].type # "heading_1"

C26_Witness ==
    /\ Compiled
    /\ Len(AstBlocks) = 3
    /\ AstBlocks[1].kind = "math_block"
    /\ AstBlocks[2].kind = "bullets"
    /\ AstBlocks[3].kind = "heading"
    /\ Len(compile_call.children) = 4
    /\ compile_call.children[1].type = "equation"
    /\ compile_call.children[4].type = "heading_3"

InsideLoop == pc = "SlideLoop"
Terminal == {"Done", "Failed"}

C28_StorageOnlyInsideLoop ==
    /\ InsideLoop => tmpdir
    /\ ~InsideLoop => ~tmpdir

\* C28: the temporary directory of the page images exists while the slide loop
\* runs and is gone after every step that leaves the loop, whether the loop
\* completed, a worker raised or rasterization raised; it exists in neither
\* terminal state.
C28_TemporaryStorageReleasedOnEveryExit ==
    [][/\ C28_StorageOnlyInsideLoop /\ C28_StorageOnlyInsideLoop'
       /\ (pc \in {"Start", "SlideLoop"} /\ pc' # "SlideLoop") => ~tmpdir'
       /\ pc' \in Terminal => ~tmpdir']_vars

C28_Witness ==
    /\ pc = "Failed"
    /\ raised.op \notin LocalSteps
    /\ page_num = 2
    /\ Len(results) = 1
    /\ ~tmpdir

C29_ProgressCountsCompletedSlides ==
    /\ pbar = Len(results)
    /\ pbar <= total_pages
    /\ pc = "Start" => pbar = 0
    /\ pc \in {"SummaryRequest", "QuestionsRequest", "Delivering", "Done"} =>
          pbar = total_pages

\* C29: the progress counter starts at 0, increases by exactly 1 with every
\* group a completed worker adds to results (excluded slide or not) and by
\* nothing otherwise, never decreases, never exceeds total_pages and equals
\* total_pages once the loop has completed.
C29_ProgressCounter ==
    [][/\ C29_ProgressCountsCompletedSlides /\ C29_ProgressCountsCompletedSlides'
       /\ pbar' \in {pbar, pbar + 1}
       /\ pbar' = pbar + 1 <=> Len(results') = Len(results) + 1
       /\ (pc = "SlideLoop" /\ pc' = "SummaryRequest") => pbar' = total_pages]_vars

C29_Witness ==
    /\ pc = "SummaryRequest"
    /\ total_pages = 2
    /\ ctx.excluded_pages = {1}
    /\ pbar = 2

IssuedCalls ==
    {analyze_task[p] : p \in {q \in Pages : Started(analyze_task[q])}}
    \cup (IF Started(summary_call) THEN {summary_call} ELSE {})
    \cup (IF Started(questions_call) THEN {questions_call} ELSE {})

\* C30: every reasoning-service call of a run, each slide's analyze, the
\* summary request and the questions request, at its first attempt and at
\* every retry, is issued against the conversation identifier held in the
\* PipelineContext.
C30_OneConversationForEveryCall ==
    \A call \in IssuedCalls :
        /\ call.conversation = ctx.conversation_id
        /\ call.conversation # ""

C30_Witness ==
    /\ total_pages = 2
    /\ ctx.excluded_pages = {}
    /\ questions_call.st = "call"
    /\ questions_call.attempt = 2
    /\ Cardinality(IssuedCalls) >= 3
    /\ \A call \in IssuedCalls : call.conversation = ctx.conversation_id

\* An attempt of the call failed in this step.
AttemptFails(before, after) ==
    /\ before.st \in InFlight
    /\ after.st \in {"sleep", "raised"}

\* What follows the failure depends on the attempt number alone.
RetriedWhateverTheKind(before, after) ==
    AttemptFails(before, after) =>
        /\ after.err.kind \in {"transient", "permanent"}
        /\ after.attempt = before.attempt
        /\ before.attempt < 3 => after.st = "sleep"
        /\ before.attempt = 3 => after.st = "raised"

\* C31: the retry policy does not classify errors: a failed attempt is followed
\* by a retry when fewer than 3 attempts were made and by the error being
\* surfaced at the 3rd, for a permanent error exactly as for a transient one.
C31_PermanentErrorsAreRetried ==
    [][/\ \A p \in Pages : /\ RetriedWhateverTheKind(upload_task[p], upload_task'[p])
                            /\ RetriedWhateverTheKind(analyze_task[p], analyze_task'[p])
       /\ RetriedWhateverTheKind(summary_call, summary_call')
       /\ RetriedWhateverTheKind(questions_call, questions_call')
       /\ RetriedWhateverTheKind(append_call, append_call')]_vars

C31_Witness ==
    /\ analyze_task[1].st = "sleep"
    /\ analyze_task[1].attempt = 2
    /\ analyze_task[1].err.kind = "permanent"
    /\ upload_task[1].st = "sleep"
    /\ upload_task[1].err.kind = "permanent"

\* The last n blocks of the final list.
LastBlocks(n) == SubSeq(all_children, Len(all_children) - n + 1, Len(all_children))

\* C32: in every run that reaches Delivering the final block list ends with
\* the Practice Questions heading followed by exactly five numbered-list item
\* blocks, one per question/answer pair.
C32_EndsWithFiveNumberedQuestions ==
    pc \in {"Delivering", "Done"} =>
        /\ Len(all_children) >= 6
        /\ LastBlocks(6)[1] = questions_title
        /\ \A k \in 2..6 : LastBlocks(6)[k].type = "numbered_list_item"

IsPrefix(xs, ys) == Len(xs) <= Len(ys) /\ xs = SubSeq(ys, 1, Len(xs))

\* C33: when process_pdf reaches Done the destination page holds exactly the
\* final block list, every block once and in list order, also when a chunk
\* call failed and the append succeeded on a later attempt; in every state the
\* blocks on the page are a prefix of the final block list.
C33_PageIsPrefixOfFinalList ==
    /\ pc = "Done" => notion_page = all_children
    /\ IsPrefix(notion_page, all_children)

\* The id the service returned for the handle this attempt of the upload created.
CreatedBy(p, upload) == <<p, upload.attempt>>

C34_UploadSteps(p, before, after) ==
    /\ (after.st = "send" /\ before.st # "send") =>
          /\ before.st = "create"
          /\ after.attempt = before.attempt
          /\ after.target = CreatedBy(p, before)
    /\ (after.st = "ok" /\ before.st # "ok") =>
          /\ before.st = "send"
          /\ after.attempt = before.attempt
          /\ after.value = before.target
          /\ after.value = CreatedBy(p, before)
    /\ (before.st \in {"create", "send"} /\ after.st \in {"sleep", "raised"}) =>
          /\ after.value = NoId
          /\ after.err.op = before.st

C34_UploadState(p, upload) ==
    /\ upload.st = "create" => upload.target = NoId /\ upload.value = NoId
    /\ upload.st = "send" => upload.target = CreatedBy(p, upload) /\ upload.value = NoId

\* C34: the byte-send request is issued only after the handle creation of the
\* same attempt answered 200 and targets the id that creation returned; the
\* id returned to the caller is the id of the handle whose byte-send
\* succeeded; a failure at either step fails the attempt without a result.
C34_SendFollowsCreateOnItsHandle ==
    [][\A p \in Pages :
          /\ C34_UploadSteps(p, upload_task[p], upload_task'[p])
          /\ C34_UploadState(p, upload_task[p])
          /\ C34_UploadState(p, upload_task'[p])]_vars

C34_Witness ==
    /\ upload_task[1].st = "ok"
    /\ upload_task[1].attempt = 2
    /\ upload_task[1].target = <<1, 2>>
    /\ upload_task[1].value = <<1, 2>>

\* C35: every reasoning-service call of a run, analyze, summary and questions,
\* is issued with the model selected in the PipelineContext, whichever model
\* the user chose.
C35_CallsUseTheSelectedModel ==
    \A call \in IssuedCalls : call.model = ctx.model

\* The PATCH calls of one attempt of the append carry distinct chunks.
ChunkOncePerAttempt ==
    \A i, j \in DOMAIN Calls :
        (i # j /\ Calls[i].attempt = Calls[j].attempt) => Calls[i].chunk # Calls[j].chunk

C36_BoundedWork ==
    /\ page_num <= total_pages
    /\ \A p \in Pages : upload_task[p].attempt <= 3 /\ analyze_task[p].attempt <= 3
    /\ summary_call.attempt <= 3 /\ questions_call.attempt <= 3
    /\ append_call.attempt <= 3
    /\ ChunkOncePerAttempt

\* C36: when every issued network call is answered, every run of process_pdf
\* ends in Done or Failed: no operation is attempted more than 3 times, the
\* slide loop moves from each page to the next and never back, and an attempt
\* of the append sends each chunk at most once.
C36_EveryRunTerminates ==
    /\ <>(pc \in {"Done", "Failed"})
    /\ []C36_BoundedWork
    /\ [][page_num' \in {page_num, page_num + 1}]_vars

C36_Witness ==
    /\ pc = "Done"
    /\ total_pages = 2
    /\ page_num = 2
    /\ append_call.attempt = 3
    /\ upload_task[2].st = "done"

====
